---- MODULE Spec2Model ----
(***************************************************************************)
(* Model of the two-stage code generator / encoder for the multi-PE        *)
(* accelerator: stage 1 (src/src/dfg_processor.cpp) and stage 2            *)
(* (src/src/risc_v_assembler.cpp).                                         *)
(*                                                                         *)
(* C++ `int` is a 32-bit two's-complement integer.  It is kept as the      *)
(* mathematical value in -2^31 .. 2^31-1, and every operation that can     *)
(* leave that range wraps explicitly.  C++ `uint32_t` words are kept as    *)
(* sequences of 32 bits, most significant bit first.                       *)
(***************************************************************************)
EXTENDS Integers, Sequences, FiniteSets, TLC

VARIABLES
    \* ---- stage 1, calculateLuiAddiValues probe
    value,            \* the int handed to calculateLuiAddiValues
    lui_addi,         \* its returned pair <<upper20, lower12>>, <<>> before the call
    \* ---- stage 1, calculateClusterBaseAddress probe
    hw,               \* configuration and arguments of calculateClusterBaseAddress
    cluster_addr,     \* its result <<address>>, <<>> before the call
    \* ---- stage 1, calculateHWLImmediate probe
    hwl,              \* HardwareLoop descriptor and the PE's delay
    hwl_imm,          \* the packed uint32_t (32 bits), <<>> before the call
    \* ---- stage 1, DFGProcessor::generateAssembly
    config,           \* the members loadConfig filled from the configuration
    gen_pc,           \* position of generateAssembly: "off", "loop", "done", "crashed"
    gen_pe,           \* its loop variable pe
    out_files,        \* the files pe<N>_assembly.s written so far, by PE number
    yaml,             \* the configuration file the program is run on
    run,              \* 1 during the first run on that file, 2 during the second
    first_files,      \* the files the first run left, NoFiles until it has ended
    \* ---- stage 2, main() and RISC_V_Assembler::assemble
    pc,               \* position of main(): "manifest", "read", "write", "exit", "aborted"
    manifest_left,    \* manifest lines not yet read
    line_limit,       \* lines not yet read, all files of the manifest together
    pe_number,        \* PE number of the file being assembled
    line,             \* the line std::getline read last (blank at end of file)
    in_execution_section,
    assembled,        \* std::vector<AssembledInstruction> of the current file
    next_i,           \* loop index i of the output loop
    preload_count,
    execution_count,
    hex_file,         \* lines of the per-file hex output while it is open
    mem_file,         \* records of the per-file .mem output while it is open
    all_memory_entries, \* std::map<int, vector<string>> of main()
    result,           \* exit code accumulated by main()
    combined,         \* blocks of the combined memory file, <<>> until written
    log,              \* console output of main(): per processed file its PE number
                      \* and whether "Error processing file" was printed for it
    \* ---- stage 2, RISC_V_Assembler::parse_instruction probe
    tables,           \* the four register maps of the assembler object
    enc_line,         \* the line handed to parse_instruction last
    enc_result,       \* what it returned: status and result.binary
    enc_calls,        \* number of calls made on the assembler object
    \* ---- stage 2 reading a file stage 1 wrote
    pipe_pos,         \* number of lines of the file read so far
    pipe_words        \* per encoded line: the line and what parse_instruction returned

splitVars == <<value, lui_addi>>
clusterVars == <<hw, cluster_addr>>
hwlVars == <<hwl, hwl_imm>>
encVars == <<tables, enc_line, enc_result, enc_calls, pipe_pos, pipe_words>>
genVars == <<config, gen_pc, gen_pe, out_files, yaml, run, first_files>>
probeVars == <<value, lui_addi, hw, cluster_addr, hwl, hwl_imm,
               config, gen_pc, gen_pe, out_files, yaml, run, first_files,
               tables, enc_line, enc_result, enc_calls, pipe_pos, pipe_words>>
asmVars == <<pc, manifest_left, line_limit, pe_number, line, in_execution_section,
             assembled, next_i, preload_count, execution_count, hex_file, mem_file,
             all_memory_entries, result, combined, log>>
vars == <<value, lui_addi, hw, cluster_addr, hwl, hwl_imm,
          config, gen_pc, gen_pe, out_files, yaml, run, first_files,
          pc, manifest_left, line_limit, pe_number, line, in_execution_section,
          assembled, next_i, preload_count, execution_count, hex_file, mem_file,
          all_memory_entries, result, combined, log,
          tables, enc_line, enc_result, enc_calls, pipe_pos, pipe_words>>

(***************************************************************************)
(* Integer helpers.                                                        *)
(***************************************************************************)
MaxInt32 == 2147483647
MinInt32 == -2147483647 - 1

RECURSIVE Pow2(_)
Pow2(n) == IF n = 0 THEN 1 ELSE 2 * Pow2(n - 1)

\* x & (2^k - 1) on a two's-complement int, k <= 30
MaskLow(x, k) == x % Pow2(k)

\* x >> k on an int (arithmetic shift)
Sar(x, k) == x \div Pow2(k)

\* the low 12 bits of x read as a two's-complement number
signed12(x) == LET m == x % 4096 IN IF m >= 2048 THEN m - 4096 ELSE m

\* (u << 12) as a 32-bit int: bits above bit 31 are lost, bit 31 is the sign
Shl12Int32(u) ==
    LET u20 == u % 1048576
    IN  (IF u20 >= 524288 THEN u20 - 1048576 ELSE u20) * 4096

\* a + b as a 32-bit int (wrapping), a and b in the int range
AddInt32(a, b) ==
    IF a >= 0 /\ b >= 0 /\ a > MaxInt32 - b
        THEN (a - MaxInt32 - 1) + (b - MaxInt32 - 1)
    ELSE IF a < 0 /\ b < 0 /\ a < MinInt32 - b
        THEN (a + MaxInt32 + 1) + (b + MaxInt32 + 1)
    ELSE a + b

\* bitwise OR / AND of two naturals
RECURSIVE BitOr(_, _)
BitOr(a, b) ==
    IF a = 0 THEN b
    ELSE IF b = 0 THEN a
    ELSE (IF a % 2 = 1 \/ b % 2 = 1 THEN 1 ELSE 0) + 2 * BitOr(a \div 2, b \div 2)

RECURSIVE BitAnd(_, _)
BitAnd(a, b) ==
    IF a = 0 \/ b = 0 THEN 0
    ELSE (IF a % 2 = 1 /\ b % 2 = 1 THEN 1 ELSE 0) + 2 * BitAnd(a \div 2, b \div 2)

(***************************************************************************)
(* Stage 1: calculateLuiAddiValues                                         *)
(***************************************************************************)
SplitDelta == 3

SplitPivots == {-1048576, -8192, -5000, -4096, -3000, -2048, 0, 100, 2047,
                3000, 4096, 5000, 104352, 1048576, 2147481600}

SplitInputs ==
    {p + d : p \in SplitPivots, d \in (0 - SplitDelta)..SplitDelta}
        \cup {MinInt32 + d : d \in 0..SplitDelta}
        \cup {MaxInt32 - d : d \in 0..SplitDelta}

calculateLuiAddiValuesSigned(v) ==
    IF v >= -2048 /\ v <= 2047 THEN <<0, v>>
    ELSE LET lower12 == MaskLow(v, 12)
         IN  IF BitAnd(lower12, 2048) # 0
                 THEN <<MaskLow(Sar(v, 12), 20) + 1, lower12 - 4096>>
                 ELSE <<MaskLow(Sar(v, 12), 20), lower12>>

calculateLuiAddiValuesNoCarry(v) ==
    IF v >= -2048 /\ v <= 2047 THEN <<0, v>>
    ELSE <<MaskLow(Sar(v, 12), 20), MaskLow(v, 12)>>

calculateLuiAddiValues(v) ==
    IF v >= -2048 /\ v <= 2047 THEN <<0, v>>
    ELSE LET lower12 == MaskLow(v, 12)
         IN  IF BitAnd(lower12, 2048) # 0
                 THEN <<MaskLow(Sar(v, 12), 20) + 1, lower12>>
                 ELSE <<MaskLow(Sar(v, 12), 20), lower12>>

SplitIdle == value = 0 /\ lui_addi = <<>>

InitSplit == value \in SplitInputs /\ lui_addi = <<>>

CallCalculateLuiAddiValues ==
    /\ lui_addi = <<>>
    /\ lui_addi' = calculateLuiAddiValues(value)
    /\ UNCHANGED <<value, clusterVars, hwlVars, genVars, asmVars, encVars>>

(***************************************************************************)
(* Stage 1: getClusterNumber, calculateClusterBaseAddress                  *)
(***************************************************************************)
MaxPeId == 63

getClusterNumber(pe_id, pes_per_cluster) == pe_id \div pes_per_cluster

\* has_offset is mem_offsets.count(reg + "_offset") > 0, offset the value under that key
calculateClusterBaseAddressBankAt15(base_addr, has_offset, offset, cluster_num, data_dup, pe_id) ==
    IF has_offset /\ offset # 0
    THEN IF data_dup = 2
         THEN IF pe_id >= 15 THEN base_addr + offset * cluster_num + 100000
                             ELSE base_addr + offset * cluster_num
         ELSE base_addr + offset * cluster_num
    ELSE base_addr

calculateClusterBaseAddress(base_addr, has_offset, offset, cluster_num, data_dup, pe_id) ==
    IF has_offset /\ offset # 0
    THEN IF data_dup = 2
         THEN IF pe_id > 15 THEN base_addr + offset * cluster_num + 100000
                            ELSE base_addr + offset * cluster_num
         ELSE IF data_dup = 4
         THEN IF pe_id > 15 /\ pe_id < 31 THEN base_addr + offset * cluster_num + 100000
              ELSE IF pe_id > 31 /\ pe_id < 47 THEN base_addr + offset * cluster_num + 200000
              ELSE IF pe_id > 47 /\ pe_id < 63 THEN base_addr + offset * cluster_num + 300000
              ELSE base_addr + offset * cluster_num
         ELSE base_addr + offset * cluster_num
    ELSE base_addr

ClusterInputs ==
    {h \in [base : {4096, 70000}, has_offset : BOOLEAN, offset : {0, 256}, data_dup : {1, 2, 4},
     pes_per_cluster : {4, 16}, pe_id : 0..MaxPeId] : h.has_offset \/ h.offset = 0}

ClusterIdle ==
    /\ hw = [base |-> 0, has_offset |-> FALSE, offset |-> 0, data_dup |-> 1, pes_per_cluster |-> 1, pe_id |-> 0]
    /\ cluster_addr = <<>>

InitCluster == hw \in ClusterInputs /\ cluster_addr = <<>>

CallCalculateClusterBaseAddress ==
    /\ cluster_addr = <<>>
    /\ cluster_addr' = <<calculateClusterBaseAddress(hw.base, hw.has_offset, hw.offset,
                           getClusterNumber(hw.pe_id, hw.pes_per_cluster),
                           hw.data_dup, hw.pe_id)>>
    /\ UNCHANGED <<hw, splitVars, hwlVars, genVars, asmVars, encVars>>

(***************************************************************************)
(* 32-bit unsigned words as bit sequences, most significant bit first.     *)
(***************************************************************************)
\* the w-bit binary of n, 0 <= n < 2^w, w <= 30
Bits(n, w) == [i \in 1..w |-> (n \div Pow2(w - i)) % 2]

Zeros(w) == [i \in 1..w |-> 0]

\* static_cast<uint32_t>(n) of an int 0 <= n < 2^30
ToWord(n) == Zeros(2) \o Bits(n, 30)

ShlWord(word, k) == [i \in 1..32 |-> IF i + k <= 32 THEN word[i + k] ELSE 0]

OrWord(a, b) == [i \in 1..32 |-> IF a[i] = 1 \/ b[i] = 1 THEN 1 ELSE 0]

RECURSIVE BitsValue(_)
BitsValue(bits) ==
    IF bits = <<>> THEN 0
    ELSE 2 * BitsValue(SubSeq(bits, 1, Len(bits) - 1)) + bits[Len(bits)]

\* the value of bits hi..lo (bit 31 is the most significant) of a word
Field(word, hi, lo) == BitsValue(SubSeq(word, 32 - hi, 32 - lo))

(***************************************************************************)
(* Stage 1: calculateHWLImmediate                                          *)
(***************************************************************************)
MaxDelay == 2

calculateHWLImmediateSpanAt16(h, delay) ==
    LET imm1 == ShlWord(ToWord(MaskLow(h.pc_start + delay, 9)), 23)
        imm2 == OrWord(imm1, ShlWord(ToWord(MaskLow(h.pc_stop - h.pc_start, 6)), 16))
        imm3 == OrWord(imm2, ShlWord(ToWord(MaskLow(h.hwl_index, 5)), 12))
    IN  OrWord(imm3, ToWord(MaskLow(h.iterations, 12)))

calculateHWLImmediate(h, delay) ==
    LET imm1 == ShlWord(ToWord(MaskLow(h.pc_start + delay, 9)), 23)
        imm2 == OrWord(imm1, ShlWord(ToWord(MaskLow(h.pc_stop - h.pc_start, 6)), 17))
        imm3 == OrWord(imm2, ShlWord(ToWord(MaskLow(h.hwl_index, 5)), 12))
    IN  OrWord(imm3, ToWord(MaskLow(h.iterations, 12)))

HwlInputs ==
    [loop_id : {1}, pc_start : {0, 10, 511, 600}, pc_stop : {5, 50, 700},
     hwl_index : {0, 2, 31, 33}, iterations : {-1, 0, 8, 4095, 4104},
     delay : 0..MaxDelay]

HwlIdle ==
    /\ hwl = [loop_id |-> 0, pc_start |-> 0, pc_stop |-> 0, hwl_index |-> 0,
              iterations |-> 0, delay |-> 0]
    /\ hwl_imm = <<>>

InitHWL == hwl \in HwlInputs /\ hwl_imm = <<>>

CallCalculateHWLImmediate ==
    /\ hwl_imm = <<>>
    /\ hwl_imm' = calculateHWLImmediate(hwl, hwl.delay)
    /\ UNCHANGED <<hwl, splitVars, clusterVars, genVars, asmVars, encVars>>

(***************************************************************************)
(* Stage 1: DFGProcessor::generateAssembly                                 *)
(***************************************************************************)
NoFiles == [p \in {} |-> <<>>]

GenIdle ==
    /\ config = <<>>
    /\ gen_pc = "off"
    /\ gen_pe = 0
    /\ out_files = NoFiles
    /\ yaml = <<>>
    /\ run = 0
    /\ first_files = NoFiles

\* ---- the configuration as loadConfig stores it ----
\* std::map<std::string, int> with no entry
\* ---- the operands of an assembly line, as parse_instruction of stage 2 ----
\* collects them from the comma-separated arguments:
\* a name ("x5", "null"), a number ("-904"), or an offset and a base in
\* parentheses: "8(x5)", "(x5)", "x1(x5)"
NoName == <<"", 0>>
NameTok(letters, number) ==
    [kind |-> "name", name |-> <<letters, number>>, num |-> 0, base |-> NoName]
NumTok(n) == [kind |-> "num", name |-> <<"", n>>, num |-> n, base |-> NoName]
MemTok(n, base) == [kind |-> "mem", name |-> <<"", n>>, num |-> n, base |-> base]
MemTokBlank(base) == [kind |-> "memblank", name |-> NoName, num |-> 0, base |-> base]
MemTokName(name, base) == [kind |-> "memname", name |-> name, num |-> 0, base |-> base]

\* a register name is a pair of its letters and its number: <<"x", 5>> is "x5"
NullName == <<"null", 0>>
RegTok(name) == NameTok(name[1], name[2])

\* the name a register string of the configurations denotes
RegisterName(reg) ==
    CASE reg = "x5" -> <<"x", 5>>
      [] reg = "x6" -> <<"x", 6>>
      [] reg = "x7" -> <<"x", 7>>
      [] reg = "x8" -> <<"x", 8>>
      [] OTHER -> <<reg, 0>>

NoMap == [k \in {} |-> 0]

\* an Instruction; `times` says how many consecutive copies of it the
\* instruction list holds
PlainInstr(operation, format, times) ==
    [operation |-> operation, format |-> format, times |-> times,
     has_var |-> FALSE, var |-> 0, psrf_var |-> NoMap, coefficients |-> NoMap,
     base_address |-> "", has_hwl |-> FALSE, offset_given |-> FALSE, offset |-> 0,
     ra1 |-> NullName, ra2 |-> NullName, rd |-> NullName, imm |-> 0,
     target |-> "", address |-> 0,
     hwl |-> [loop_id |-> 0, pc_start |-> 0, pc_stop |-> 0, hwl_index |-> 0,
              iterations |-> 0]]

AddInstr == PlainInstr("ADD", "r-type", 1)
JalrInstr == PlainInstr("JALR", "i-type", 1)
BogusInstr == PlainInstr("FOO", "special", 1)
NopRun(n) == PlainInstr("NOP", "special", n)
MemLoad ==
    [PlainInstr("LW", "mem-type", 1) EXCEPT
        !.base_address = "x5", !.offset_given = TRUE, !.offset = 8]
\* a load whose "offset" key is absent from the configuration file
MemLoadNoOffset == [PlainInstr("LW", "mem-type", 1) EXCEPT !.base_address = "x5"]
HwlInstr ==
    [PlainInstr("hwl", "hwl-type", 1) EXCEPT
        !.has_hwl = TRUE,
        !.hwl = [loop_id |-> 1, pc_start |-> 10, pc_stop |-> 50, hwl_index |-> 2,
                 iterations |-> 8]]
PsrfLoadVar ==
    [PlainInstr("psrf.lw", "psrf-mem-type", 1) EXCEPT
        !.has_var = TRUE, !.var = 1, !.base_address = "x5",
        !.psrf_var = ("v0" :> 0 @@ "v2" :> 7 @@ "v5" :> -3),
        !.coefficients = ("c0" :> 5 @@ "c1" :> 5000 @@ "c2" :> 4095 @@ "c3" :> -5000
                              @@ "c4" :> 0)]
PsrfLoadNoVar ==
    [PlainInstr("psrf.lw", "psrf-mem-type", 1) EXCEPT
        !.base_address = "x8",
        !.psrf_var = ("v1" :> 9),
        !.coefficients = ("c5" :> 4096)]

\* the instruction lists of the PE assignments
InstructionLists ==
    { <<>>,
      <<AddInstr, BogusInstr>>,
      <<MemLoad, AddInstr>>,
      <<MemLoadNoOffset>>,
      <<PsrfLoadVar, HwlInstr, PsrfLoadNoVar, AddInstr>>,
      <<NopRun(9999)>>,
      <<NopRun(9999), AddInstr>> }

RECURSIVE ListSize(_)
\* instructions.size()
ListSize(instructions) ==
    IF instructions = <<>> THEN 0
    ELSE Head(instructions).times + ListSize(Tail(instructions))

\* the flags and the register set loadConfig derives from the instructions
HasPsrfMemType(instructions) ==
    \E i \in 1..Len(instructions) : instructions[i].format = "psrf-mem-type"

HasMemType(instructions) ==
    \E i \in 1..Len(instructions) : instructions[i].format = "mem-type"

RequiredBaseRegisters(instructions) ==
    {instructions[i].base_address :
        i \in {j \in 1..Len(instructions) :
                  /\ instructions[j].base_address # ""
                  /\ instructions[j].format \in {"psrf-mem-type", "mem-type"}}}

PEAssignment(pe_id, instructions) ==
    [pe_id |-> pe_id, instructions |-> instructions,
     has_psrf_mem_type |-> HasPsrfMemType(instructions),
     has_mem_type |-> HasMemType(instructions),
     required_base_registers |-> RequiredBaseRegisters(instructions)]

\* pe_assignments: one or two assignments, pe_id in list order
AssignmentLists ==
    {<<PEAssignment(0, a)>> : a \in InstructionLists}
        \cup {<<PEAssignment(0, a), PEAssignment(1, b)>> :
                  a \in InstructionLists, b \in InstructionLists}

\* mem_config and mem_offsets (keyed by the symbol; the code's key is symbol +
\* "_offset"), and the symbols in std::map order
SymbolOrder == <<"x5", "x6", "x7", "x8">>

MemSetups ==
    { [mem_config |-> NoMap, mem_offsets |-> NoMap],
      [mem_config |-> ("x5" :> 4096 @@ "x6" :> 0 @@ "x7" :> 100 @@ "x8" :> 3000),
       mem_offsets |-> ("x5" :> 256 @@ "x7" :> 0)] }

\* delay_start: 64 zeros when the configuration has none
DelayLists == { [k \in 1..64 |-> 0], <<0, 2>> }

\* function_pe_assignments, and the function names in std::map order
FunctionOrder == <<"f", "g">>

FunctionSetups ==
    { [n \in {} |-> <<>>],
      ("f" :> (0 :> PEAssignment(0, <<AddInstr>>))
          @@ "g" :> (0 :> PEAssignment(0, <<JalrInstr>>) @@ 1 :> PEAssignment(1, <<>>))) }

\* ---- the lines of an emitted program ----
\* A line of pe<N>_assembly.s: the block that wrote it, its mnemonic ("#" for a
\* comment, "" for an empty line), what stage 2 looks at (first character of
\* the trimmed line, whether it holds ':', whether it holds the marker text),
\* its operands, and how many consecutive copies of it are written.
Line(block, op, first, colon, marker) ==
    [block |-> block, op |-> op, first |-> first, colon |-> colon,
     marker |-> marker, reg |-> "", rd |-> 0, rs |-> 0, imm |-> 0, count |-> 1,
     args |-> <<>>]

CommentOf(block) == Line(block, "#", "#", FALSE, FALSE)
EmptyOf(block) == Line(block, "", "", FALSE, FALSE)
InstrOf(block, op) == Line(block, op, "x", FALSE, FALSE)

\* ---- generateBaseAddressLoading ----
BaseRegisterLoadAlwaysLui(reg, lui_val, addi_val) ==
    <<CommentOf("base")>>
        \o (IF lui_val # 0 THEN <<CommentOf("base")>> ELSE <<>>)
        \o <<[InstrOf("base", "lui") EXCEPT
                        !.reg = reg, !.imm = lui_val,
                        !.args = <<RegTok(RegisterName(reg)), NumTok(lui_val)>>]>>
        \o (IF addi_val # 0
               THEN <<[InstrOf("base", "addi") EXCEPT
                        !.reg = reg, !.imm = addi_val,
                        !.args = <<RegTok(RegisterName(reg)), RegTok(RegisterName(reg)),
                                   NumTok(addi_val)>>]>>
               ELSE <<>>)
        \o <<EmptyOf("base")>>

\* the lines written for one register: comments, lui if lui_val != 0, addi if
\* addi_val != 0 || lui_val != 0, an empty line
BaseRegisterLoad(reg, lui_val, addi_val) ==
    <<CommentOf("base")>>
        \o (IF lui_val # 0 THEN <<CommentOf("base")>> ELSE <<>>)
        \o (IF lui_val # 0
               THEN <<[InstrOf("base", "lui") EXCEPT
                        !.reg = reg, !.imm = lui_val,
                        !.args = <<RegTok(RegisterName(reg)), NumTok(lui_val)>>]>>
               ELSE <<>>)
        \o (IF addi_val # 0 \/ lui_val # 0
               THEN <<[InstrOf("base", "addi") EXCEPT
                        !.reg = reg, !.imm = addi_val,
                        !.args = <<RegTok(RegisterName(reg)), RegTok(RegisterName(reg)),
                                   NumTok(addi_val)>>]>>
               ELSE <<>>)
        \o <<EmptyOf("base")>>

\* the cluster address of register reg for PE pe_id
ClusterAddressOf(cfg, reg, pe_id) ==
    calculateClusterBaseAddress(cfg.mem_config[reg],
                                reg \in DOMAIN cfg.mem_offsets,
                                IF reg \in DOMAIN cfg.mem_offsets
                                    THEN cfg.mem_offsets[reg] ELSE 0,
                                getClusterNumber(pe_id, cfg.pes_per_cluster),
                                cfg.data_dup, pe_id)

RECURSIVE BaseLoadsFrom(_, _, _)
\* the loop over mem_config from its k-th symbol on
BaseLoadsFrom(cfg, pe_id, k) ==
    IF k > Len(SymbolOrder) THEN <<>>
    ELSE LET reg == SymbolOrder[k]
         IN  (IF reg \in DOMAIN cfg.mem_config /\ cfg.mem_config[reg] # 0
                 THEN LET pair == calculateLuiAddiValues(ClusterAddressOf(cfg, reg, pe_id))
                      IN  BaseRegisterLoad(reg, pair[1], signed12(pair[2]))
                 ELSE <<>>)
                 \o BaseLoadsFrom(cfg, pe_id, k + 1)

generateBaseAddressLoading(cfg, pe_id) ==
    <<CommentOf("base")>> \o BaseLoadsFrom(cfg, pe_id, 1)

\* ---- generatePreloadSection ----
VarKeys == <<"v0", "v1", "v2", "v3", "v4", "v5">>
CoefKeys == <<"c0", "c1", "c2", "c3", "c4", "c5">>

\* std::stoi(key.substr(1))
KeyNumber(key) ==
    CASE key \in {"v0", "c0"} -> 0
      [] key \in {"v1", "c1"} -> 1
      [] key \in {"v2", "c2"} -> 2
      [] key \in {"v3", "c3"} -> 3
      [] key \in {"v4", "c4"} -> 4
      [] key \in {"v5", "c5"} -> 5

RegBaseTimesFive(var_value) == var_value * 5

\* reg_base = var_value * 6
RegBase(var_value) == var_value * 6

RECURSIVE ScratchLoadsFrom(_, _, _)
\* the loop over instr.psrf_var from its k-th key on
ScratchLoadsFrom(instr, reg_base, k) ==
    IF k > Len(VarKeys) THEN <<>>
    ELSE LET key == VarKeys[k]
         IN  (IF key \in DOMAIN instr.psrf_var /\ instr.psrf_var[key] # 0
                 THEN <<[InstrOf("preload", "ppsrf.addi") EXCEPT
                            !.rd = reg_base + KeyNumber(key),
                            !.rs = reg_base,
                            !.imm = instr.psrf_var[key],
                            !.args = <<NameTok("v", reg_base + KeyNumber(key)),
                                       NameTok("v", reg_base),
                                       NumTok(instr.psrf_var[key])>>]>>
                 ELSE <<>>)
                 \o ScratchLoadsFrom(instr, reg_base, k + 1)

\* the load of one non-zero coefficient
CoefficientLoad(reg_num, reg_base, coef) ==
    IF coef > 4095
    THEN << [InstrOf("preload", "corf.lui") EXCEPT
                !.rd = reg_num, !.imm = Sar(coef, 12),
                !.args = <<NameTok("c", reg_num), NumTok(Sar(coef, 12))>>],
            [InstrOf("preload", "corf.addi") EXCEPT
                !.rd = reg_num, !.rs = reg_base, !.imm = MaskLow(coef, 12),
                !.args = <<NameTok("c", reg_num), NameTok("c", reg_base),
                           NumTok(MaskLow(coef, 12))>>] >>
    ELSE << [InstrOf("preload", "corf.addi") EXCEPT
                !.rd = reg_num, !.rs = reg_base, !.imm = coef,
                !.args = <<NameTok("c", reg_num), NameTok("c", reg_base),
                           NumTok(coef)>>] >>

RECURSIVE CoefficientLoadsFrom(_, _, _)
\* the loop over instr.coefficients from its k-th key on
CoefficientLoadsFrom(instr, reg_base, k) ==
    IF k > Len(CoefKeys) THEN <<>>
    ELSE LET key == CoefKeys[k]
         IN  (IF key \in DOMAIN instr.coefficients /\ instr.coefficients[key] # 0
                 THEN CoefficientLoad(reg_base + KeyNumber(key), reg_base,
                                      instr.coefficients[key])
                 ELSE <<>>)
                 \o CoefficientLoadsFrom(instr, reg_base, k + 1)

RECURSIVE PreloadLinesFrom(_, _)
\* the loop over pe_assignment.instructions from the i-th on
PreloadLinesFrom(instructions, i) ==
    IF i > Len(instructions) THEN <<>>
    ELSE LET instr == instructions[i]
             reg_base == RegBase(IF instr.has_var THEN instr.var ELSE 0)
         IN  (IF instr.format = "psrf-mem-type"
                 THEN <<CommentOf("preload")>>
                          \o ScratchLoadsFrom(instr, reg_base, 1)
                          \o CoefficientLoadsFrom(instr, reg_base, 1)
                 ELSE <<>>)
                 \o PreloadLinesFrom(instructions, i + 1)

generatePreloadSection(pe_assignment) ==
    IF ~(\E i \in 1..Len(pe_assignment.instructions) :
             pe_assignment.instructions[i].format = "psrf-mem-type")
    THEN <<>>
    ELSE <<CommentOf("preload")>>
             \o PreloadLinesFrom(pe_assignment.instructions, 1)
             \o <<EmptyOf("preload")>>

\* ---- generateHWLInstructions and generateInstructionCode ----
splitHWLImmediateNoCarry(imm) == <<Field(imm, 31, 12), Field(imm, 11, 0)>>

\* splitHWLImmediate: <<upper, lower>> of a packed word
splitHWLImmediate(imm) ==
    LET lower == Field(imm, 11, 0)
        upper == Field(imm, 31, 12)
    IN  <<IF BitAnd(lower, 2048) # 0 THEN upper + 1 ELSE upper, lower>>

\* delay_start[pe_id] if pe_id < delay_start.size(), else 0
DelayOf(cfg, pe_id) ==
    IF pe_id < Len(cfg.delay_start) THEN cfg.delay_start[pe_id + 1] ELSE 0

generateHWLInstructions(cfg, instr, block, pe_id) ==
    IF ~instr.has_hwl THEN <<>>
    ELSE LET pair == splitHWLImmediate(calculateHWLImmediate(instr.hwl, DelayOf(cfg, pe_id)))
         IN  << CommentOf(block), CommentOf(block),
                [InstrOf(block, "hwlrf.lui") EXCEPT
                    !.rd = instr.hwl.loop_id, !.imm = pair[1],
                    !.args = <<NameTok("L", instr.hwl.loop_id), NumTok(pair[1])>>],
                [InstrOf(block, "hwlrf.addi") EXCEPT
                    !.rd = instr.hwl.loop_id, !.rs = instr.hwl.loop_id, !.imm = pair[2],
                    !.args = <<NameTok("L", instr.hwl.loop_id),
                               NameTok("L", instr.hwl.loop_id), NumTok(pair[2])>>] >>

\* std::transform(..., ::tolower) and ::toupper on the mnemonics of the
\* configurations; a text with no letter to change is returned as it is
UpperToLower ==
    ("ADD" :> "add") @@ ("ADDI" :> "addi") @@ ("JALR" :> "jalr")
        @@ ("LW" :> "lw") @@ ("LB" :> "lb") @@ ("LH" :> "lh") @@ ("LBU" :> "lbu")
        @@ ("LHU" :> "lhu") @@ ("SW" :> "sw") @@ ("SB" :> "sb") @@ ("SH" :> "sh")
        @@ ("NOP" :> "nop") @@ ("RET" :> "ret") @@ ("SLLI" :> "slli")
        @@ ("BEQ" :> "beq") @@ ("LUI" :> "lui") @@ ("JAL" :> "jal") @@ ("FOO" :> "foo")

LowerCase(operation) ==
    IF operation \in DOMAIN UpperToLower THEN UpperToLower[operation] ELSE operation

UpperCase(operation) ==
    CASE operation = "addi" -> "ADDI"
      [] operation = "add" -> "ADD"
      [] operation = "mul" -> "MUL"
      [] operation = "lw" -> "LW"
      [] operation = "sw" -> "SW"
      [] OTHER -> operation

MemoryOperations ==
    {"LW", "lw", "SW", "sw", "LB", "lb", "LH", "lh", "LBU", "lbu", "LHU", "lhu",
     "SB", "sb", "SH", "sh", "psrf.lw", "psrf.lb", "psrf.sw", "psrf.sb", "psrf.zd.lw"}

PsrfOperations == {"psrf.lw", "psrf.sw", "psrf.lb", "psrf.sb", "psrf.zd.lw"}

\* the operations that select the I-type branch whatever the format is
ITypeOperations ==
    {"ADDI", "addi", "SLTI", "slti", "XORI", "xori", "SLTIU", "sltiu", "ORI", "ori",
     "ANDI", "andi", "SLLI", "slli", "SRLI", "srli", "SRAI", "srai", "JALR", "jalr"}

RTypeOperations ==
    {"ADD", "SUB", "SLL", "SLT", "SLTU", "XOR", "SRL", "SRA", "OR", "AND", "MUL"}

BTypeOperations ==
    {"BEQ", "BNE", "BLT", "BGE", "BLTU", "BGEU", "beq", "bne", "blt", "bge", "bltu",
     "bgeu"}

\* if (addi_val & 0x800) addi_val = addi_val | 0xFFFFF000;
SignExtendAddi(addi_val) ==
    IF BitAnd(MaskLow(addi_val, 12), 2048) # 0 /\ addi_val >= 0
        THEN addi_val - 4096 ELSE addi_val

\* the ADDI branch: one addi line, or for an immediate outside -2048..2047 a
\* comment, then lui and addi (or one addi with the whole immediate if the
\* upper part is 0)
ADDILines(instr, block) ==
    LET text(op, args, imm) ==
            [InstrOf(block, op) EXCEPT !.count = instr.times, !.args = args, !.imm = imm]
        pair == calculateLuiAddiValues(instr.imm)
        lui_val == pair[1]
        addi_val == SignExtendAddi(pair[2])
        whole == text("addi", <<RegTok(instr.rd), RegTok(instr.ra1), NumTok(instr.imm)>>,
                      instr.imm)
    IN  IF instr.imm > 2047 \/ instr.imm < -2048
            THEN <<[Line(block, "#", "#", TRUE, FALSE) EXCEPT !.count = instr.times]>>
                     \o (IF lui_val # 0
                            THEN << text("lui", <<RegTok(instr.rd), NumTok(lui_val)>>,
                                         lui_val),
                                    text("addi", <<RegTok(instr.rd), RegTok(instr.ra1),
                                                   NumTok(addi_val)>>, addi_val) >>
                            ELSE <<whole>>)
            ELSE <<whole>>

\* the text generateInstructionCode returns for one instruction
generateInstructionCode(cfg, instr, block, pe_id) ==
    LET text(op, args, imm) ==
            <<[InstrOf(block, op) EXCEPT !.count = instr.times, !.args = args, !.imm = imm]>>
        unknown == <<[Line(block, "#", "#", TRUE, FALSE) EXCEPT !.count = instr.times]>>
        lower == LowerCase(instr.operation)
        base == RegisterName(instr.base_address)
        rd_ra1_imm == <<RegTok(instr.rd), RegTok(instr.ra1), NumTok(instr.imm)>>
    IN  IF instr.format = "hwl-type"
            THEN generateHWLInstructions(cfg, instr, block, pe_id)
        ELSE IF instr.operation \in MemoryOperations
            THEN IF instr.format = "psrf-mem-type"
                     THEN IF instr.operation \in PsrfOperations
                              THEN text(instr.operation,
                                        IF instr.has_var
                                            THEN <<RegTok(instr.ra1), MemTok(instr.var, base)>>
                                            ELSE <<MemTokName(instr.ra1, base)>>,
                                        0)
                              ELSE unknown
                     ELSE IF instr.operation \notin PsrfOperations
                              THEN text(lower, <<RegTok(instr.ra1), MemTok(instr.offset, base)>>,
                                        instr.offset)
                              ELSE unknown
        ELSE IF instr.format = "i-type" \/ instr.operation \in ITypeOperations
            THEN IF instr.operation = "ADDI" THEN ADDILines(instr, block)
                 ELSE text(lower, rd_ra1_imm, instr.imm)
        ELSE IF instr.format = "r-type" \/ instr.operation \in RTypeOperations
            THEN text(lower, <<RegTok(instr.rd), RegTok(instr.ra1), RegTok(instr.ra2)>>, 0)
        ELSE IF instr.operation \in {"BEQ", "BNE", "BLT", "BGE", "BLTU", "BGEU"}
            THEN text(lower, rd_ra1_imm, instr.imm)
        ELSE IF instr.operation \in {"LUI", "AUIPC"}
            THEN text(lower, <<RegTok(instr.ra1), NumTok(instr.imm)>>, instr.imm)
        ELSE IF instr.operation \in {"JAL", "jal"}
            THEN text("jal",
                      <<RegTok(instr.rd),
                        NumTok(IF instr.target # "" THEN instr.address ELSE instr.imm)>>,
                      IF instr.target # "" THEN instr.address ELSE instr.imm)
        ELSE IF instr.operation \in BTypeOperations
            THEN text(instr.operation, rd_ra1_imm, instr.imm)
        ELSE IF instr.operation = "RET"
            THEN text("ret", <<>>, 0)
        ELSE IF instr.operation \in {"NOP", "nop"}
            THEN text("nop", <<>>, 0)
        ELSE unknown

RECURSIVE InstructionLinesFrom(_, _, _, _, _)
\* the loop "for (instr : instructions) outFile << generateInstructionCode(...)"
InstructionLinesFrom(cfg, instructions, block, pe_id, i) ==
    IF i > Len(instructions) THEN <<>>
    ELSE generateInstructionCode(cfg, instructions[i], block, pe_id)
             \o InstructionLinesFrom(cfg, instructions, block, pe_id, i + 1)

\* ---- generateAssembly: the text of one file ----
HeaderLines ==
    << CommentOf("header"), CommentOf("header"),
       Line("header", ".text", ".", FALSE, FALSE),
       Line("header", ".global", ".", FALSE, FALSE),
       EmptyOf("header"),
       Line("header", "_start:", "_", TRUE, FALSE) >>

\* "    # ========== Execution Section Begin =========="
MarkerLines == <<Line("marker", "#", "#", FALSE, TRUE)>>

DelayLines(cfg, pe_id) ==
    IF pe_id < Len(cfg.delay_start) /\ cfg.delay_start[pe_id + 1] > 0
    THEN << CommentOf("delay"),
            [InstrOf("delay", "nop") EXCEPT !.count = cfg.delay_start[pe_id + 1]],
            EmptyOf("delay") >>
    ELSE <<>>

RECURSIVE FunctionLinesFrom(_, _, _)
\* the loop over function_pe_assignments from its k-th name on
FunctionLinesFrom(cfg, pe_id, k) ==
    IF k > Len(FunctionOrder) THEN <<>>
    ELSE LET func_name == FunctionOrder[k]
         IN  (IF func_name \in DOMAIN cfg.function_pe_assignments
                     /\ pe_id \in DOMAIN cfg.function_pe_assignments[func_name]
                 THEN LET list == cfg.function_pe_assignments[func_name][pe_id].instructions
                      IN  << EmptyOf("func"),
                             Line("func", "label", "x", TRUE, FALSE),
                             Line("func", "#", "#", TRUE, FALSE) >>
                              \o InstructionLinesFrom(cfg, list, "func", pe_id, 1)
                              \o (IF list = <<>> \/ list[Len(list)].operation # "JALR"
                                     THEN <<[InstrOf("func", "jalr") EXCEPT
                                               !.args = <<NameTok("x", 0), NameTok("x", 26),
                                                          NumTok(0)>>]>>
                                     ELSE <<>>)
                 ELSE <<>>)
                 \o FunctionLinesFrom(cfg, pe_id, k + 1)

FunctionSections(cfg, pe_id) ==
    IF DOMAIN cfg.function_pe_assignments = {} THEN <<>>
    ELSE <<EmptyOf("func"), CommentOf("func")>> \o FunctionLinesFrom(cfg, pe_id, 1)

FooterLines == <<CommentOf("footer"), InstrOf("footer", "ret")>>

BaseBlock(cfg, assignment, pe_id) ==
    IF assignment.required_base_registers # {}
        THEN generateBaseAddressLoading(cfg, pe_id) ELSE <<>>

PreloadBlock(assignment) ==
    IF assignment.has_psrf_mem_type \/ assignment.has_mem_type
        THEN generatePreloadSection(assignment) ELSE <<>>

ProgramMarkerFirst(cfg, assignment, pe_id) ==
    HeaderLines
        \o MarkerLines
        \o BaseBlock(cfg, assignment, pe_id)
        \o PreloadBlock(assignment)
        \o DelayLines(cfg, pe_id)
        \o InstructionLinesFrom(cfg, assignment.instructions, "exec", pe_id, 1)
        \o FunctionSections(cfg, pe_id)
        \o FooterLines

\* everything generateAssembly writes to the file of PE pe_id
Program(cfg, assignment, pe_id) ==
    HeaderLines
        \o BaseBlock(cfg, assignment, pe_id)
        \o PreloadBlock(assignment)
        \o MarkerLines
        \o DelayLines(cfg, pe_id)
        \o InstructionLinesFrom(cfg, assignment.instructions, "exec", pe_id, 1)
        \o FunctionSections(cfg, pe_id)
        \o FooterLines

\* ---- generateAssembly: the loop over the PEs ----
MaxGenPes == 3

GenConfigs ==
    { [total_pes |-> n, pes_per_cluster |-> ppc, minimum_pes_required |-> m,
       data_dup |-> 2, mem_config |-> mem.mem_config, mem_offsets |-> mem.mem_offsets,
       delay_start |-> d, pe_assignments |-> a, function_pe_assignments |-> f] :
          n \in 1..MaxGenPes, ppc \in {1, 2}, m \in {0, 1}, mem \in MemSetups,
          d \in DelayLists, a \in AssignmentLists, f \in FunctionSetups }

\* the values an int that was never assigned can hold
IndeterminateInts == {0, 2047}

\* generateInstructionCode reads instr.offset for the plain memory operations
ReadsOffset(instr) ==
    instr.operation \in MemoryOperations /\ instr.format # "psrf-mem-type"

\* "Set operation to uppercase for standard operations if needed"
LoadOperation(operation, format) ==
    IF format \in {"i-type", "r-type"} /\ operation \in {"addi", "add", "mul", "lw", "sw"}
        THEN UpperCase(operation) ELSE operation

\* the Instruction loadConfig builds: offset is assigned only when the key is
\* present, and is otherwise whatever the local variable held (followed here
\* for the instructions whose offset is read)
LoadInstruction(instr, leftover) ==
    LET loaded == [instr EXCEPT !.operation = LoadOperation(instr.operation, instr.format)]
    IN  IF ReadsOffset(loaded) /\ ~loaded.offset_given
            THEN [loaded EXCEPT !.offset = leftover] ELSE loaded

LoadAssignment(assignment, leftover) ==
    [assignment EXCEPT !.instructions =
        [i \in DOMAIN @ |-> LoadInstruction(@[i], leftover)]]

\* the members loadConfig can leave for a configuration file
loadConfig(file) ==
    { [file EXCEPT !.pe_assignments =
          [k \in DOMAIN @ |-> LoadAssignment(@[k], leftover[k])]] :
        leftover \in [DOMAIN file.pe_assignments -> IndeterminateInts] }

InitGen ==
    /\ yaml \in GenConfigs
    /\ config \in loadConfig(yaml)
    /\ gen_pc = "loop"
    /\ gen_pe = 0
    /\ out_files = NoFiles
    /\ run = 1
    /\ first_files = NoFiles

\* if (base_pe > minimum_pes_required) continue
BeyondMinimum(base_pe, minimum_pes_required) == base_pe > minimum_pes_required

\* instructions.size() >= 10000 || instructions.size() == 0
SizeSkipped(instructions) ==
    ListSize(instructions) >= 10000 \/ ListSize(instructions) = 0

BasePe == gen_pe % config.pes_per_cluster

\* the PE is beyond the minimum: nothing is written for it
GenSkipByMinimum ==
    /\ gen_pc = "loop"
    /\ gen_pe < config.total_pes
    /\ BeyondMinimum(BasePe, config.minimum_pes_required)
    /\ gen_pe' = gen_pe + 1
    /\ UNCHANGED <<config, gen_pc, out_files, yaml, run, first_files, splitVars, clusterVars, hwlVars, asmVars, encVars>>

\* the assignment of the PE is empty or too long: nothing is written for it
GenSkipBySize ==
    /\ gen_pc = "loop"
    /\ gen_pe < config.total_pes
    /\ ~BeyondMinimum(BasePe, config.minimum_pes_required)
    /\ BasePe < Len(config.pe_assignments)
    /\ SizeSkipped(config.pe_assignments[BasePe + 1].instructions)
    /\ gen_pe' = gen_pe + 1
    /\ UNCHANGED <<config, gen_pc, out_files, yaml, run, first_files, splitVars, clusterVars, hwlVars, asmVars, encVars>>

\* the file of the PE is written
GenEmit ==
    /\ gen_pc = "loop"
    /\ gen_pe < config.total_pes
    /\ ~BeyondMinimum(BasePe, config.minimum_pes_required)
    /\ BasePe < Len(config.pe_assignments)
    /\ ~SizeSkipped(config.pe_assignments[BasePe + 1].instructions)
    /\ out_files' = [p \in DOMAIN out_files \cup {gen_pe} |->
                        IF p = gen_pe
                            THEN Program(config, config.pe_assignments[BasePe + 1], gen_pe)
                            ELSE out_files[p]]
    /\ gen_pe' = gen_pe + 1
    /\ UNCHANGED <<config, gen_pc, yaml, run, first_files, splitVars, clusterVars, hwlVars, asmVars, encVars>>

\* pe_assignments[base_pe] with base_pe >= pe_assignments.size(): the read is
\* out of bounds, the program crashes or goes on with whatever it read
GenOutOfBounds ==
    /\ gen_pc = "loop"
    /\ gen_pe < config.total_pes
    /\ ~BeyondMinimum(BasePe, config.minimum_pes_required)
    /\ BasePe >= Len(config.pe_assignments)
    /\ \/ /\ gen_pc' = "crashed"
          /\ UNCHANGED <<gen_pe, out_files>>
       \/ \E list \in InstructionLists :
             /\ gen_pc' = gen_pc
             /\ gen_pe' = gen_pe + 1
             /\ out_files' =
                    IF SizeSkipped(list) THEN out_files
                    ELSE [p \in DOMAIN out_files \cup {gen_pe} |->
                             IF p = gen_pe
                                 THEN Program(config, PEAssignment(gen_pe, list), gen_pe)
                                 ELSE out_files[p]]
    /\ UNCHANGED <<config, yaml, run, first_files, splitVars, clusterVars, hwlVars, asmVars, encVars>>

\* the program is started again on the same configuration file, after a first
\* run that ended normally or by a crash; the files of the first run stay where
\* they are until the second run opens them
GenRunAgain ==
    /\ gen_pc \in {"done", "crashed"}
    /\ run = 1
    /\ run' = 2
    /\ first_files' = out_files
    /\ config' \in loadConfig(yaml)
    /\ gen_pc' = "loop"
    /\ gen_pe' = 0
    /\ out_files' = out_files
    /\ UNCHANGED <<yaml, splitVars, clusterVars, hwlVars, asmVars, encVars>>

\* the loop ends
GenDone ==
    /\ gen_pc = "loop"
    /\ gen_pe = config.total_pes
    /\ gen_pc' = "done"
    /\ UNCHANGED <<config, gen_pe, out_files, yaml, run, first_files, splitVars, clusterVars, hwlVars, asmVars, encVars>>

(***************************************************************************)
(* Stage 2: input lines.  A line of an assembly file is described by what  *)
(* assemble and parse_instruction look at: the first character of the      *)
(* trimmed line ("" for a blank line, "x" for any other character than     *)
(* '#', '.', '_'), whether it contains ':', whether it contains the text   *)
(* "Execution Section Begin", and what parse_instruction makes of it:      *)
(* "word" (a 32-bit word), "empty" (unrecognized mnemonic or too few       *)
(* operands: result.binary stays empty), "throw" (std::stoi throws on an   *)
(* operand that is no number).                                             *)
(***************************************************************************)
BlankLine     == [first |-> "",  colon |-> FALSE, marker |-> FALSE, parse |-> "empty"]
CommentLine   == [first |-> "#", colon |-> FALSE, marker |-> FALSE, parse |-> "empty"]
MarkerLine    == [first |-> "#", colon |-> FALSE, marker |-> TRUE,  parse |-> "empty"]
DirectiveLine == [first |-> ".", colon |-> FALSE, marker |-> FALSE, parse |-> "empty"]
StartLabel    == [first |-> "_", colon |-> TRUE,  marker |-> FALSE, parse |-> "empty"]
LabelLine     == [first |-> "x", colon |-> TRUE,  marker |-> FALSE, parse |-> "empty"]
NopLine       == [first |-> "x", colon |-> FALSE, marker |-> FALSE, parse |-> "word"]
NopMarkerText == [first |-> "x", colon |-> FALSE, marker |-> TRUE,  parse |-> "word"]
UnknownOpLine == [first |-> "x", colon |-> FALSE, marker |-> FALSE, parse |-> "empty"]
BadNumberLine == [first |-> "x", colon |-> FALSE, marker |-> FALSE, parse |-> "throw"]

AsmLines == {BlankLine, CommentLine, MarkerLine, DirectiveLine, StartLabel, LabelLine,
             NopLine, NopMarkerText, UnknownOpLine, BadNumberLine}

\* the test of assemble that skips empty lines, comments, directives and labels
IsSkipped(text) == text.first \in {"", "#", ".", "_"} \/ text.colon

\* in_execution_section after a skipped line: set once the marker text is found
NextSectionLastLine(flag, text) == text.marker

NextSection(flag, text) == flag \/ text.marker

\* result.hex of parse_instruction: the word of "nop", or the empty string
NopHex == "00000013"
parse_instruction_hex(text) == IF text.parse = "word" THEN NopHex ELSE ""

(***************************************************************************)
(* Stage 2: RISC_V_Assembler::assemble, address of a record                *)
(***************************************************************************)
UnknownPe == 65535

MemAddressNoSectionBit(pe, is_execution, count) ==
    BitOr(BitAnd(pe, 255) * 1024, count)

MemAddressSectionSwapped(pe, is_execution, count) ==
    IF is_execution
    THEN BitOr(BitOr(BitAnd(pe, 255) * 1024, 512), count)
    ELSE BitOr(BitAnd(pe, 255) * 1024, count)

MemAddressPlus(pe, is_execution, count) ==
    IF is_execution
    THEN BitAnd(pe, 255) * 1024 + count + 1
    ELSE BitAnd(pe, 255) * 1024 + 512 + count

\* execution_count++ / preload_count++ in the branch of the record's section
AdvanceCountAlways(count, hit) == count + 1

AdvanceCount(count, hit) == IF hit THEN count + 1 ELSE count

MemAddress(pe, is_execution, count) ==
    IF is_execution
    THEN BitOr(BitAnd(pe, 255) * 1024, count)
    ELSE BitOr(BitOr(BitAnd(pe, 255) * 1024, 512), count)

(***************************************************************************)
(* Stage 2: main() and assemble as a state machine                         *)
(***************************************************************************)
MaxFiles == 2
MaxMainLines == 4
MaxLines == 7

PeNumbers == {0, 3, 255, UnknownPe}

NoEntries == [p \in {} |-> <<>>]

AsmIdle ==
    /\ pc = "off"
    /\ manifest_left = 0
    /\ line_limit = 0
    /\ pe_number = 0
    /\ line = BlankLine
    /\ in_execution_section = FALSE
    /\ assembled = <<>>
    /\ next_i = 0
    /\ preload_count = 0
    /\ execution_count = 0
    /\ hex_file = <<>>
    /\ mem_file = <<>>
    /\ all_memory_entries = NoEntries
    /\ result = 0
    /\ combined = <<>>
    /\ log = <<>>

InitMain(nfiles, nlines) ==
    /\ pc = "manifest"
    /\ manifest_left \in 0..nfiles
    /\ line_limit = nlines
    /\ pe_number = 0
    /\ line = BlankLine
    /\ in_execution_section = FALSE
    /\ assembled = <<>>
    /\ next_i = 0
    /\ preload_count = 0
    /\ execution_count = 0
    /\ hex_file = <<>>
    /\ mem_file = <<>>
    /\ all_memory_entries = NoEntries
    /\ result = 0
    /\ combined = <<>>
    /\ log = <<>>

NextResultLastFile(code, file_result) == file_result

\* main(): if (file_result != 0) result = file_result
NextResult(code, file_result) == IF file_result # 0 THEN file_result ELSE code

\* all_memory_entries[pe] = std::vector<std::string>()
ResetEntries(entries, pe) ==
    [p \in DOMAIN entries \cup {pe} |-> IF p = pe THEN <<>> ELSE entries[p]]

\* main(): a manifest line that is empty or a comment
SkipManifestLine ==
    /\ pc = "manifest"
    /\ manifest_left > 0
    /\ manifest_left' = manifest_left - 1
    /\ UNCHANGED <<probeVars, line, pc, line_limit, pe_number,
                   in_execution_section, assembled, next_i, preload_count,
                   execution_count, hex_file, mem_file, all_memory_entries,
                   result, combined, log>>

\* main() takes a manifest line naming a file of PE pe and calls assemble, which
\* opens the input file
OpenFile(pe) ==
    /\ pc = "manifest"
    /\ manifest_left > 0
    /\ manifest_left' = manifest_left - 1
    /\ pe_number' = pe
    /\ all_memory_entries' = ResetEntries(all_memory_entries, pe)
    /\ pc' = "read"
    /\ in_execution_section' = FALSE
    /\ assembled' = <<>>
    /\ log' = Append(log, [pe |-> pe, error |-> FALSE])
    /\ UNCHANGED <<probeVars, line, line_limit, next_i, preload_count,
                   execution_count, hex_file, mem_file, result, combined>>

\* assemble cannot open the input file: returns 1, main records it
OpenFileFails(pe) ==
    /\ pc = "manifest"
    /\ manifest_left > 0
    /\ manifest_left' = manifest_left - 1
    /\ all_memory_entries' = ResetEntries(all_memory_entries, pe)
    /\ result' = NextResult(result, 1)
    /\ log' = Append(log, [pe |-> pe, error |-> TRUE])
    /\ UNCHANGED <<probeVars, line, pc, line_limit, pe_number,
                   in_execution_section, assembled, next_i, preload_count,
                   execution_count, hex_file, mem_file, combined>>

\* one iteration of the reading loop of assemble
ReadLine(text) ==
    /\ pc = "read"
    /\ line_limit > 0
    /\ line_limit' = line_limit - 1
    /\ line' = text
    /\ IF IsSkipped(text)
       THEN /\ in_execution_section' = NextSection(in_execution_section, text)
            /\ UNCHANGED <<pc, assembled>>
       ELSE IF text.parse = "throw"
       THEN /\ pc' = "aborted"
            /\ UNCHANGED <<in_execution_section, assembled>>
       ELSE /\ assembled' = Append(assembled,
                                [hex |-> parse_instruction_hex(text),
                                 is_execution |-> in_execution_section])
            /\ UNCHANGED <<pc, in_execution_section>>
    /\ UNCHANGED <<probeVars, manifest_left, pe_number, next_i, preload_count,
                   execution_count, hex_file, mem_file, all_memory_entries,
                   result, combined, log>>

\* end of the input file: the output files are opened
EndOfFile ==
    /\ pc = "read"
    /\ pc' = "write"
    /\ next_i' = 0
    /\ preload_count' = 0
    /\ execution_count' = 0
    /\ hex_file' = <<>>
    /\ mem_file' = <<>>
    /\ line' = BlankLine
    /\ UNCHANGED <<probeVars, manifest_left, line_limit, pe_number,
                   in_execution_section, assembled, all_memory_entries,
                   result, combined, log>>

\* the output files cannot be opened: assemble returns 1
OutputOpenFails ==
    /\ pc = "read"
    /\ pc' = "manifest"
    /\ result' = NextResult(result, 1)
    /\ pe_number' = 0
    /\ line' = BlankLine
    /\ assembled' = <<>>
    /\ in_execution_section' = FALSE
    /\ log' = [log EXCEPT ![Len(log)].error = TRUE]
    /\ UNCHANGED <<probeVars, manifest_left, line_limit, next_i,
                   preload_count, execution_count, hex_file, mem_file,
                   all_memory_entries, combined>>

\* one iteration of the output loop of assemble
WriteRecord ==
    /\ pc = "write"
    /\ next_i < Len(assembled)
    /\ LET instr == assembled[next_i + 1]
           address == MemAddress(pe_number, instr.is_execution,
                                 IF instr.is_execution THEN execution_count
                                                       ELSE preload_count)
           mem_entry == [address |-> address, hex |-> instr.hex]
       IN  /\ execution_count' = AdvanceCount(execution_count, instr.is_execution)
           /\ preload_count' = AdvanceCount(preload_count, ~instr.is_execution)
           /\ hex_file' = Append(hex_file, instr.hex)
           /\ mem_file' = Append(mem_file, mem_entry)
           /\ all_memory_entries' =
                  [all_memory_entries EXCEPT ![pe_number] = Append(@, mem_entry)]
    /\ next_i' = next_i + 1
    /\ UNCHANGED <<probeVars, line, pc, manifest_left, line_limit, pe_number,
                   in_execution_section, assembled, result, combined, log>>

\* assemble closes its output files and returns 0; its locals go out of scope
FinishAssemble ==
    /\ pc = "write"
    /\ next_i = Len(assembled)
    /\ pc' = "manifest"
    /\ pe_number' = 0
    /\ assembled' = <<>>
    /\ in_execution_section' = FALSE
    /\ next_i' = 0
    /\ preload_count' = 0
    /\ execution_count' = 0
    /\ hex_file' = <<>>
    /\ mem_file' = <<>>
    /\ result' = NextResult(result, 0)
    /\ UNCHANGED <<probeVars, line, manifest_left, line_limit,
                   all_memory_entries, combined, log>>

Max(S) == CHOOSE m \in S : \A n \in S : n <= m

\* total_pes of main(): one more than the largest known PE number
TotalPes(entries) ==
    LET known == DOMAIN entries \ {UnknownPe}
    IN  IF known = {} THEN 0 ELSE Max(known) + 1

\* the loop "for (pe = 0; pe < total_pes; pe++) if (find(pe) != end())": the known
\* keys below total in ascending order
RECURSIVE PeBlocks(_, _)
PeBlocks(entries, keys) ==
    IF keys = {} THEN <<>>
    ELSE LET pe == CHOOSE k \in keys : \A n \in keys : k <= n
         IN  <<[heading |-> "PE", pe |-> pe, entries |-> entries[pe]]>>
                 \o PeBlocks(entries, keys \ {pe})

CombinedFileUnknownFirst(entries) ==
    (IF UnknownPe \in DOMAIN entries
        THEN <<[heading |-> "Unknown PE", pe |-> UnknownPe,
                entries |-> entries[UnknownPe]]>>
        ELSE <<>>)
        \o PeBlocks(entries, {k \in DOMAIN entries : k >= 0 /\ k < TotalPes(entries)})

\* the body of the combined file: the PE blocks, then the unknown-PE block
CombinedFile(entries) ==
    PeBlocks(entries, {k \in DOMAIN entries : k >= 0 /\ k < TotalPes(entries)})
        \o (IF UnknownPe \in DOMAIN entries
               THEN <<[heading |-> "Unknown PE", pe |-> UnknownPe,
                       entries |-> entries[UnknownPe]]>>
               ELSE <<>>)

\* end of the manifest: main() writes the combined memory file and returns result
WriteCombined ==
    /\ pc = "manifest"
    /\ manifest_left = 0
    /\ combined' = CombinedFile(all_memory_entries)
    /\ pc' = "exit"
    /\ UNCHANGED <<probeVars, line, manifest_left, line_limit, pe_number,
                   in_execution_section, assembled, next_i, preload_count,
                   execution_count, hex_file, mem_file, all_memory_entries,
                   result, log>>

(***************************************************************************)
(* Stage 2: RISC_V_Assembler, the encoders.  A binary string is a sequence *)
(* of bits, most significant first.  A register name is a pair of its      *)
(* letters and its number: <<"x", 5>> is "x5".                             *)
(***************************************************************************)
\* std::bitset<32>(num).to_string().substr(32 - length): the low `length` bits
\* of the two's complement pattern of the int num
Bitset32Low(num, length) == [i \in 1..length |-> (num \div Pow2(length - i)) % 2]

to_binarySaturating(num, length) ==
    IF num >= Pow2(length) THEN [i \in 1..length |-> 1]
    ELSE Bitset32Low(IF num < 0 THEN Pow2(length) + num ELSE num, length)

\* if (num < 0) num = (1 << length) + num; then the low `length` bits
to_binary(num, length) ==
    Bitset32Low(IF num < 0 THEN Pow2(length) + num ELSE num, length)

\* the opcodes of the constructor, as the values of their 7-bit strings
instructions ==
    [op \in {"lb", "lh", "lw", "lbu", "lhu"} |-> 3]
        @@ [op \in {"addi", "slli", "slti", "sltiu", "xori", "srli", "srai", "ori",
                    "andi"} |-> 19]
        @@ ("auipc" :> 23)
        @@ [op \in {"sb", "sh", "sw"} |-> 35]
        @@ [op \in {"add", "sub", "sll", "slt", "sltu", "xor", "srl", "sra", "or",
                    "and", "mul"} |-> 51]
        @@ ("lui" :> 55)
        @@ [op \in {"beq", "bne", "blt", "bge", "bltu", "bgeu"} |-> 99]
        @@ ("jalr" :> 103) @@ ("jal" :> 111)
        @@ [op \in {"psrf.lw", "psrf.lb", "psrf.zd.lw"} |-> 4]
        @@ [op \in {"psrf.sw", "psrf.sb"} |-> 36]
        @@ [op \in {"ppsrf.addi", "corf.addi", "hwlrf.addi"} |-> 20]
        @@ ("corf.lui" :> 59) @@ ("hwlrf.lui" :> 60) @@ ("ret" :> 0)

\* the funct3 strings of the constructor, as values
funct3 ==
    ("lb" :> 0) @@ ("lh" :> 1) @@ ("lw" :> 2) @@ ("lbu" :> 4) @@ ("lhu" :> 5)
        @@ ("addi" :> 0) @@ ("slli" :> 1) @@ ("slti" :> 2) @@ ("sltiu" :> 3)
        @@ ("xori" :> 4) @@ ("srli" :> 5) @@ ("srai" :> 5) @@ ("ori" :> 6)
        @@ ("andi" :> 7)
        @@ ("sb" :> 0) @@ ("sh" :> 1) @@ ("sw" :> 2)
        @@ ("add" :> 0) @@ ("sub" :> 0) @@ ("sll" :> 1) @@ ("slt" :> 2)
        @@ ("sltu" :> 3) @@ ("xor" :> 4) @@ ("srl" :> 5) @@ ("sra" :> 5)
        @@ ("or" :> 6) @@ ("and" :> 7) @@ ("mul" :> 0)
        @@ ("beq" :> 0) @@ ("bne" :> 1) @@ ("blt" :> 4) @@ ("bge" :> 5)
        @@ ("bltu" :> 6) @@ ("bgeu" :> 7)
        @@ ("jalr" :> 0)
        @@ ("psrf.lw" :> 7) @@ ("psrf.lb" :> 0) @@ ("psrf.zd.lw" :> 6)
        @@ ("psrf.sw" :> 4) @@ ("psrf.sb" :> 0)
        @@ ("ppsrf.addi" :> 1) @@ ("corf.addi" :> 0) @@ ("hwlrf.addi" :> 2)

\* the funct7 strings of the constructor, as values
funct7 ==
    [op \in {"slli", "srli", "add", "sll", "slt", "sltu", "xor", "srl", "or", "and"}
        |-> 0]
        @@ [op \in {"srai", "sub", "sra"} |-> 32]
        @@ ("mul" :> 1)

Opcode(op) == Bits(instructions[op], 7)
Func3(op) == Bits(funct3[op], 3)
Func7(op) == Bits(funct7[op], 7)

\* the register maps the constructor fills: x0..x31, c0..c31, v0..v31, L1..L7
FreshTables ==
    [registers     |-> [name \in {<<"x", i>> : i \in 0..31} |-> name[2]],
     registers_c   |-> [name \in {<<"c", i>> : i \in 0..31} |-> name[2]],
     registers_p   |-> [name \in {<<"v", i>> : i \in 0..31} |-> name[2]],
     hwl_registers |-> [name \in {<<"L", i>> : i \in 1..7} |-> name[2]]]

DefaultValueBySize(table) == Cardinality(DOMAIN table)

\* the value std::map<std::string, int>::operator[] inserts for a new key
DefaultValue(table) == 0

\* the map after map[name] has been evaluated
MapInsert(table, name) ==
    IF name \in DOMAIN table THEN table
    ELSE [k \in DOMAIN table \cup {name} |->
             IF k = name THEN DefaultValue(table) ELSE table[k]]

\* the value of map[name]
MapIndex(table, name) == MapInsert(table, name)[name]

RECURSIVE MapInsertAll(_, _)
\* the map after map[names[1]], map[names[2]], ... have been evaluated in turn
MapInsertAll(table, names) ==
    IF names = <<>> THEN table
    ELSE MapInsertAll(MapInsert(table, Head(names)), Tail(names))

\* the value of map[names[k]] when the names are looked up in turn
Looked(table, names, k) == MapIndex(MapInsertAll(table, SubSeq(names, 1, k - 1)), names[k])

\* std::stoi(arg) succeeds: the argument starts with a number
StoiOk(tok) == tok.kind \in {"num", "mem"}

\* offset_base.find('(') and find(')') both succeed
HasParens(tok) == tok.kind \in {"mem", "memblank", "memname"}

\* std::stoi(offset_str) is needed and throws
OffsetThrows(tok) == tok.kind = "memname"

\* std::string::substr(pos, len) of a binary string
Substr(bits, pos, len) == SubSeq(bits, pos + 1, pos + len)

\* ---- the encoders; `table` is the register map the encoder indexes ----
assemble_r_type(table, op, rd, rs1, rs2) ==
    IF op \in {"slli", "srli", "srai"}
    THEN Func7(op) \o to_binary(rs2.num, 5)
             \o to_binary(Looked(table, <<rd.name, rs1.name>>, 2), 5)
             \o Func3(op)
             \o to_binary(Looked(table, <<rd.name, rs1.name>>, 1), 5)
             \o Opcode(op)
    ELSE Func7(op) \o to_binary(Looked(table, <<rd.name, rs1.name, rs2.name>>, 3), 5)
             \o to_binary(Looked(table, <<rd.name, rs1.name, rs2.name>>, 2), 5)
             \o Func3(op)
             \o to_binary(Looked(table, <<rd.name, rs1.name, rs2.name>>, 1), 5)
             \o Opcode(op)

\* assemble_i_type, assemble_psrf_lw_sw, assemble_corf_addi, assemble_ppsrf_addi
\* and assemble_hwlrf_addi have this body, each with its own map
assemble_i_type(table, op, rd, rs1, imm) ==
    to_binary(imm, 12)
        \o to_binary(Looked(table, <<rd, rs1>>, 2), 5)
        \o Func3(op)
        \o to_binary(Looked(table, <<rd, rs1>>, 1), 5)
        \o Opcode(op)

assemble_s_type(table, op, rs1, rs2, imm) ==
    LET imm_bin == to_binary(imm, 12)
    IN  Substr(imm_bin, 0, 7)
            \o to_binary(Looked(table, <<rs1, rs2>>, 2), 5)
            \o to_binary(Looked(table, <<rs1, rs2>>, 1), 5)
            \o Func3(op)
            \o Substr(imm_bin, 7, 5)
            \o Opcode(op)

assemble_b_type(table, op, rs1, rs2, imm) ==
    LET imm_bin == to_binary(imm, 13)
    IN  Substr(imm_bin, 0, 1) \o Substr(imm_bin, 2, 6)
            \o to_binary(Looked(table, <<rs1, rs2>>, 2), 5)
            \o to_binary(Looked(table, <<rs1, rs2>>, 1), 5)
            \o Func3(op)
            \o Substr(imm_bin, 8, 4) \o Substr(imm_bin, 1, 1)
            \o Opcode(op)

\* assemble_u_type and assemble_hwlrf_lui have this body, each with its own map
assemble_u_type(table, op, rd, imm) ==
    to_binary(imm, 20) \o to_binary(MapIndex(table, rd), 5) \o Opcode(op)

assemble_corf_lui(table, op, rd, imm) ==
    to_binary(MaskLow(imm, 20), 20) \o to_binary(MapIndex(table, rd), 5) \o Opcode(op)

assemble_j_type(table, rd, imm) ==
    LET imm_bin == to_binary(imm, 21)
    IN  Substr(imm_bin, 0, 1) \o Substr(imm_bin, 11, 10) \o Substr(imm_bin, 10, 1)
            \o Substr(imm_bin, 1, 8)
            \o to_binary(MapIndex(table, rd), 5) \o Opcode("jal")

\* ---- parse_instruction ----
\* the branch of parse_instruction an opcode text selects
OpFamily(op) ==
    CASE op = "hwlrf.lui" -> "hwlrf.lui"
      [] op = "hwlrf.addi" -> "hwlrf.addi"
      [] op \in {"lui", "auipc"} -> "u"
      [] op \in {"add", "sub", "sll", "slt", "sltu", "xor", "srl", "sra", "or", "and",
                 "mul", "slli", "srli", "srai"} -> "r"
      [] op \in {"addi", "slti", "sltiu", "xori", "ori", "andi", "jalr"} -> "i"
      [] op \in {"sb", "sh", "sw"} -> "s"
      [] op \in {"beq", "bne", "blt", "bge", "bltu", "bgeu"} -> "b"
      [] op = "jal" -> "j"
      [] op = "ppsrf.addi" -> "ppsrf.addi"
      [] op = "corf.addi" -> "corf.addi"
      [] op = "corf.lui" -> "corf.lui"
      [] op \in {"ret", "nop"} -> "special"
      [] op \in {"psrf.lw", "psrf.lb", "psrf.zd.lw", "psrf.sw", "psrf.sb"} -> "psrf"
      [] OTHER -> "none"

\* "word": result.binary is set; "empty": it stays empty (no branch for the
\* opcode, too few arguments, no parentheses); "throw": std::stoi throws
ParseStatus(instr) ==
    LET family == OpFamily(instr.op)
        args == instr.args
        n == Len(args)
    IN  CASE family \in {"hwlrf.lui", "u", "corf.lui", "j"} ->
                 IF n >= 2 THEN (IF StoiOk(args[2]) THEN "word" ELSE "throw")
                 ELSE "empty"
          [] family \in {"hwlrf.addi", "i", "b", "ppsrf.addi", "corf.addi"} ->
                 IF n >= 3 THEN (IF StoiOk(args[3]) THEN "word" ELSE "throw")
                 ELSE "empty"
          [] family = "r" ->
                 IF n >= 3
                 THEN (IF instr.op \in {"slli", "srli", "srai"} /\ ~StoiOk(args[3])
                          THEN "throw" ELSE "word")
                 ELSE "empty"
          [] family \in {"s", "psrf"} ->
                 IF n >= 2 /\ HasParens(args[2])
                 THEN (IF OffsetThrows(args[2]) THEN "throw" ELSE "word")
                 ELSE "empty"
          [] family = "special" -> "word"
          [] OTHER -> "empty"

\* the register map the branch of an opcode indexes
TableOf(op) ==
    CASE OpFamily(op) \in {"hwlrf.lui", "hwlrf.addi"} -> "hwl_registers"
      [] OpFamily(op) = "ppsrf.addi" -> "registers_p"
      [] OpFamily(op) \in {"corf.addi", "corf.lui"} -> "registers_c"
      [] OTHER -> "registers"

\* the names an encoded line looks up in that map, in the order of the lookups
LookedUpNames(instr) ==
    LET family == OpFamily(instr.op)
        args == instr.args
    IN  CASE family \in {"hwlrf.lui", "u", "corf.lui", "j"} -> <<args[1].name>>
          [] family \in {"hwlrf.addi", "i", "ppsrf.addi", "corf.addi", "b"} ->
                 <<args[1].name, args[2].name>>
          [] family = "r" ->
                 IF instr.op \in {"slli", "srli", "srai"}
                     THEN <<args[1].name, args[2].name>>
                     ELSE <<args[1].name, args[2].name, args[3].name>>
          [] family = "s" -> <<args[2].base, args[1].name>>
          [] family = "psrf" -> <<args[1].name, args[2].base>>
          [] family = "special" -> <<<<"x", 0>>, <<"x", 0>>>>

\* result.binary of a line whose status is "word"
ParseBinary(instr, t) ==
    LET family == OpFamily(instr.op)
        args == instr.args
        table == t[TableOf(instr.op)]
    IN  CASE family \in {"hwlrf.lui", "u"} ->
                 assemble_u_type(table, instr.op, args[1].name, args[2].num)
          [] family = "corf.lui" ->
                 assemble_corf_lui(table, instr.op, args[1].name, args[2].num)
          [] family \in {"hwlrf.addi", "i", "ppsrf.addi", "corf.addi"} ->
                 assemble_i_type(table, instr.op, args[1].name, args[2].name, args[3].num)
          [] family = "r" ->
                 assemble_r_type(table, instr.op, args[1], args[2], args[3])
          [] family = "s" ->
                 assemble_s_type(table, instr.op, args[2].base, args[1].name, args[2].num)
          [] family = "b" ->
                 assemble_b_type(table, instr.op, args[1].name, args[2].name, args[3].num)
          [] family = "j" -> assemble_j_type(table, args[1].name, args[2].num)
          [] family = "psrf" ->
                 assemble_i_type(table, instr.op, args[1].name, args[2].base, args[2].num)
          [] family = "special" ->
                 assemble_i_type(table, "addi", <<"x", 0>>, <<"x", 0>>, 0)

\* what parse_instruction returns for a line, and the register maps it leaves
parse_instruction(instr, t) ==
    LET status == ParseStatus(instr)
    IN  [status |-> status,
         binary |-> IF status = "word" THEN ParseBinary(instr, t) ELSE <<>>,
         tables |-> IF status = "word"
                        THEN [t EXCEPT ![TableOf(instr.op)] =
                                 MapInsertAll(@, LookedUpNames(instr))]
                        ELSE t]

\* ---- parse_instruction called on one assembler object, line after line ----
MaxEncCalls == 2

\* immediates around the limits of the 5, 12, 13, 20 and 21 bit fields
EncImms ==
    {MinInt32, -2097153, -1048577, -4097, -2049, -2048, -1, 0, 2, 31, 32, 1024,
     2047, 2048, 4096, 1048576, MaxInt32}

\* register operands of every namespace, and names that are in none
EncNames ==
    {<<"x", 5>>, <<"c", 2>>, <<"v", 3>>, <<"v", 32>>, <<"null", 0>>}

AsmLine(op, args) == [op |-> op, args |-> args]

\* one line per field layout and immediate, registers of the encoder's own namespace
ImmediateLines ==
    UNION {
        { AsmLine("addi", <<NameTok("x", 5), NameTok("x", 6), NumTok(n)>>),
          AsmLine("slli", <<NameTok("x", 5), NameTok("x", 6), NumTok(n)>>),
          AsmLine("lui", <<NameTok("x", 5), NumTok(n)>>),
          AsmLine("sw", <<NameTok("x", 5), MemTok(n, <<"x", 6>>)>>),
          AsmLine("beq", <<NameTok("x", 5), NameTok("x", 6), NumTok(n)>>),
          AsmLine("jal", <<NameTok("x", 1), NumTok(n)>>),
          AsmLine("corf.lui", <<NameTok("c", 7), NumTok(n)>>) } :
        n \in EncImms }

\* one line per register map and operand name
OperandLines ==
    UNION {
        { AsmLine("addi", <<NameTok(name[1], name[2]), NameTok("x", 6), NumTok(5)>>),
          AsmLine("add", <<NameTok("x", 7), NameTok("x", 6), NameTok(name[1], name[2])>>),
          AsmLine("corf.addi", <<NameTok(name[1], name[2]), NameTok("c", 6), NumTok(5)>>),
          AsmLine("ppsrf.addi", <<NameTok(name[1], name[2]), NameTok("v", 6), NumTok(5)>>),
          AsmLine("hwlrf.lui", <<NameTok(name[1], name[2]), NumTok(5)>>) } :
        name \in EncNames }

\* lines that leave result.binary empty or make std::stoi throw
OddLines ==
    { AsmLine("foo", <<NameTok("x", 1), NameTok("x", 2)>>),
      AsmLine("addi", <<NameTok("x", 1)>>),
      AsmLine("lw", <<NameTok("x", 1), MemTok(8, <<"x", 5>>)>>),
      AsmLine("sw", <<NameTok("x", 1), NameTok("x", 5)>>),
      AsmLine("sw", <<NameTok("x", 1), MemTokBlank(<<"x", 5>>)>>),
      AsmLine("addi", <<NameTok("x", 1), NameTok("x", 2), NameTok("x", 3)>>),
      AsmLine("psrf.lw", <<NameTok("x", 5), MemTok(1, <<"x", 6>>)>>),
      AsmLine("hwlrf.addi", <<NameTok("L", 1), NameTok("L", 1), NumTok(-5)>>),
      AsmLine("ret", <<>>),
      AsmLine("nop", <<>>) }

EncLines == ImmediateLines \cup OperandLines \cup OddLines

NoLine == AsmLine("", <<>>)
NoResult == [status |-> "none", binary |-> <<>>]

EncIdle ==
    /\ tables = <<>>
    /\ enc_line = NoLine
    /\ enc_result = NoResult
    /\ enc_calls = 0
    /\ pipe_pos = 0
    /\ pipe_words = <<>>

\* RISC_V_Assembler assembler; of main()
InitEnc ==
    /\ tables = FreshTables
    /\ enc_line = NoLine
    /\ enc_result = NoResult
    /\ enc_calls = 0
    /\ pipe_pos = 0
    /\ pipe_words = <<>>

\* AssembledInstruction instr = parse_instruction(trimmed); an exception of
\* std::stoi is caught nowhere and ends the program
ParseInstruction ==
    /\ tables # <<>>
    /\ enc_result.status # "throw"
    /\ enc_calls < MaxEncCalls
    /\ \E text \in EncLines :
          \E r \in {parse_instruction(text, tables)} :
              /\ enc_line' = text
              /\ enc_result' = [status |-> r.status, binary |-> r.binary]
              /\ tables' = r.tables
    /\ enc_calls' = enc_calls + 1
    /\ UNCHANGED <<pipe_pos, pipe_words, splitVars, clusterVars, hwlVars, genVars, asmVars>>

\* ---- stage 1 writes the file of one PE, stage 2 encodes its lines ----
\* the lines of a file, each repeated as often as it was written
RECURSIVE FileLines(_)
FileLines(program) ==
    IF program = <<>> THEN <<>>
    ELSE [k \in 1..Head(program).count |-> [Head(program) EXCEPT !.count = 1]]
             \o FileLines(Tail(program))

\* instructions of every class of generateInstructionCode, one per configuration
AddiSpellings ==
    { [PlainInstr(operation, format, 1) EXCEPT !.rd = <<"x", 7>>, !.ra1 = <<"x", 6>>,
                                                !.imm = imm] :
        operation \in {"ADDI", "addi"}, format \in {"i-type", "r-type", "I-type"},
        imm \in {-5000, -2049, -2048, 5, 2047, 2048, 3000, 5000} }

MemorySpellings ==
    { [PlainInstr(operation, "mem-type", 1) EXCEPT
          !.ra1 = <<"x", 1>>, !.base_address = "x5", !.offset_given = TRUE,
          !.offset = offset] :
        operation \in {"LW", "lw", "SW", "sw", "LB", "lb", "LH", "lh", "LBU", "lbu",
                       "LHU", "lhu", "SB", "sb", "SH", "sh"},
        offset \in {-4, 8} }

PsrfSpellings ==
    { [PlainInstr(operation, "psrf-mem-type", 1) EXCEPT
          !.ra1 = <<"x", 1>>, !.base_address = "x5", !.has_var = var # -1,
          !.var = IF var = -1 THEN 0 ELSE var,
          !.psrf_var = ("v0" :> 3 @@ "v2" :> 7 @@ "v5" :> -3),
          !.coefficients = ("c1" :> 5000 @@ "c3" :> 9)] :
        operation \in PsrfOperations, var \in {-1, 0, 1, 4, 5} }

HwlSpellings ==
    { [PlainInstr("hwl", "hwl-type", 1) EXCEPT
          !.has_hwl = TRUE,
          !.hwl = [loop_id |-> h.loop_id, pc_start |-> h.pc_start, pc_stop |-> h.pc_stop,
                   hwl_index |-> h.hwl_index, iterations |-> h.iterations]] :
        h \in HwlInputs \cup
              {[loop_id |-> 7, pc_start |-> 511, pc_stop |-> 574, hwl_index |-> 31,
                iterations |-> 4095, delay |-> 0]} }

OtherSpellings ==
    { [PlainInstr("ADD", "r-type", 1) EXCEPT
          !.rd = <<"x", 7>>, !.ra1 = <<"x", 6>>, !.ra2 = <<"x", 5>>],
      [PlainInstr("slli", "i-type", 1) EXCEPT
          !.rd = <<"x", 7>>, !.ra1 = <<"x", 6>>, !.imm = 3],
      [PlainInstr("JALR", "i-type", 1) EXCEPT !.rd = <<"x", 0>>, !.ra1 = <<"x", 1>>],
      [PlainInstr("BEQ", "b-type", 1) EXCEPT
          !.rd = <<"x", 7>>, !.ra1 = <<"x", 6>>, !.imm = 16],
      [PlainInstr("LUI", "u-type", 1) EXCEPT !.ra1 = <<"x", 7>>, !.imm = 16],
      [PlainInstr("jal", "j-type", 1) EXCEPT !.rd = <<"x", 1>>, !.imm = 64],
      PlainInstr("RET", "special", 1), PlainInstr("NOP", "special", 1),
      PlainInstr("FOO", "special", 1), PlainInstr("psrf.lw", "mem-type", 1) }

\* a configuration file with one PE and one instruction
PipeConfig(instr, delay) ==
    [total_pes |-> 1, pes_per_cluster |-> 1, minimum_pes_required |-> 0,
     data_dup |-> 2,
     mem_config |-> ("x5" :> 4096 @@ "x6" :> 0 @@ "x7" :> 100 @@ "x8" :> 3000),
     mem_offsets |-> ("x5" :> 256 @@ "x7" :> 0),
     delay_start |-> <<delay>>,
     pe_assignments |-> <<PEAssignment(0, <<instr>>)>>,
     function_pe_assignments |-> [n \in {} |-> <<>>]]

PipeConfigs ==
    {PipeConfig(instr, 0) :
        instr \in AddiSpellings \cup MemorySpellings \cup PsrfSpellings \cup OtherSpellings}
        \cup {PipeConfig(instr, delay) : instr \in HwlSpellings, delay \in 0..MaxDelay}

\* dfg_processor has loaded a configuration; the assembler is constructed
InitPipe ==
    /\ yaml \in PipeConfigs
    /\ config \in loadConfig(yaml)
    /\ gen_pc = "loop"
    /\ gen_pe = 0
    /\ out_files = NoFiles
    /\ run = 1
    /\ first_files = NoFiles
    /\ tables = FreshTables
    /\ enc_line = NoLine
    /\ enc_result = NoResult
    /\ enc_calls = 0
    /\ pipe_pos = 0
    /\ pipe_words = <<>>

\* the file of PE 0 as assemble reads it, once stage 1 has ended
PipeFile == IF 0 \in DOMAIN out_files THEN FileLines(out_files[0]) ELSE <<>>

\* assemble: a line that is empty, a comment, a directive or a label is skipped
PipeSkipLine ==
    /\ gen_pc = "done"
    /\ tables # <<>>
    /\ pipe_pos < Len(PipeFile)
    /\ IsSkipped(PipeFile[pipe_pos + 1])
    /\ pipe_pos' = pipe_pos + 1
    /\ UNCHANGED <<tables, enc_line, enc_result, enc_calls, pipe_words,
                   splitVars, clusterVars, hwlVars, genVars, asmVars>>

\* assemble: any other line goes to parse_instruction
PipeEncodeLine ==
    /\ gen_pc = "done"
    /\ tables # <<>>
    /\ pipe_pos < Len(PipeFile)
    /\ ~IsSkipped(PipeFile[pipe_pos + 1])
    /\ enc_result.status # "throw"
    /\ \E text \in {AsmLine(PipeFile[pipe_pos + 1].op, PipeFile[pipe_pos + 1].args)} :
          \E r \in {parse_instruction(text, tables)} :
              /\ enc_line' = text
              /\ enc_result' = [status |-> r.status, binary |-> r.binary]
              /\ tables' = r.tables
              /\ pipe_words' = Append(pipe_words,
                                      [text |-> text, at |-> pipe_pos + 1,
                                       status |-> r.status, binary |-> r.binary])
    /\ enc_calls' = enc_calls + 1
    /\ pipe_pos' = pipe_pos + 1
    /\ UNCHANGED <<splitVars, clusterVars, hwlVars, genVars, asmVars>>

(***************************************************************************)
(* Specifications                                                          *)
(***************************************************************************)
\* stage 2, a whole run of main() over a manifest of up to MaxFiles lines whose
\* files hold up to MaxMainLines lines together
Init == SplitIdle /\ ClusterIdle /\ HwlIdle /\ GenIdle /\ InitMain(MaxFiles, MaxMainLines) /\ EncIdle
Next ==
    \/ SkipManifestLine
    \/ \E pe \in PeNumbers : OpenFile(pe)
    \/ \E pe \in PeNumbers : OpenFileFails(pe)
    \/ \E text \in AsmLines : ReadLine(text)
    \/ EndOfFile
    \/ OutputOpenFails
    \/ WriteRecord
    \/ FinishAssemble
    \/ WriteCombined
Spec == Init /\ [][Next]_vars

\* stage 2, one file of up to MaxLines lines
InitAsm == SplitIdle /\ ClusterIdle /\ HwlIdle /\ GenIdle /\ InitMain(1, MaxLines) /\ EncIdle
NextAsm ==
    \/ SkipManifestLine
    \/ \E pe \in PeNumbers : OpenFile(pe)
    \/ \E pe \in PeNumbers : OpenFileFails(pe)
    \/ \E text \in AsmLines : ReadLine(text)
    \/ EndOfFile
    \/ OutputOpenFails
    \/ WriteRecord
    \/ FinishAssemble
    \/ WriteCombined
SpecAsm == InitAsm /\ [][NextAsm]_vars

\* stage 1, calculateLuiAddiValues on its own
InitSplitSpec == InitSplit /\ ClusterIdle /\ HwlIdle /\ GenIdle /\ AsmIdle /\ EncIdle
NextSplit == CallCalculateLuiAddiValues
SpecSplit == InitSplitSpec /\ [][NextSplit]_vars

\* stage 1, calculateClusterBaseAddress on its own
InitClusterSpec == SplitIdle /\ InitCluster /\ HwlIdle /\ GenIdle /\ AsmIdle /\ EncIdle
NextCluster == CallCalculateClusterBaseAddress
SpecCluster == InitClusterSpec /\ [][NextCluster]_vars

\* stage 1, calculateHWLImmediate on its own
InitHWLSpec == SplitIdle /\ ClusterIdle /\ InitHWL /\ GenIdle /\ AsmIdle /\ EncIdle
NextHWL == CallCalculateHWLImmediate
SpecHWL == InitHWLSpec /\ [][NextHWL]_vars

\* stage 1, generateAssembly over a loaded configuration of up to MaxGenPes PEs
InitGenSpec == SplitIdle /\ ClusterIdle /\ HwlIdle /\ InitGen /\ AsmIdle /\ EncIdle
NextGen ==
    \/ GenSkipByMinimum
    \/ GenSkipBySize
    \/ GenEmit
    \/ GenOutOfBounds
    \/ GenDone
SpecGen == InitGenSpec /\ [][NextGen]_vars

\* stage 1 run twice on the same configuration file
NextTwice ==
    \/ NextGen
    \/ GenRunAgain
SpecTwice == InitGenSpec /\ [][NextTwice]_vars

\* stage 2, parse_instruction called up to MaxEncCalls times on one assembler
InitEncSpec == SplitIdle /\ ClusterIdle /\ HwlIdle /\ GenIdle /\ AsmIdle /\ InitEnc
NextEnc == ParseInstruction
SpecEnc == InitEncSpec /\ [][NextEnc]_vars

\* stage 1 on a configuration of one PE, then stage 2 on the file it wrote
InitPipeSpec == SplitIdle /\ ClusterIdle /\ HwlIdle /\ AsmIdle /\ InitPipe
NextPipe == GenEmit \/ GenDone \/ PipeSkipLine \/ PipeEncodeLine
SpecPipe == InitPipeSpec /\ [][NextPipe]_vars

(***************************************************************************)
(* Claims                                                                  *)
(***************************************************************************)
InSigned12(v) == v >= -2048 /\ v <= 2047

\* C1: for every int v, the pair (upper, lower) returned by
\* calculateLuiAddiValues satisfies (upper << 12) + signed12(lower) = v, the
\* shift and the sum taken in 32-bit two's-complement arithmetic (what lui
\* followed by addi computes in a 32-bit register).
C1_SplitRoundTrip ==
    lui_addi # <<>> =>
        AddInt32(Shl12Int32(lui_addi[1]), signed12(lui_addi[2])) = value

\* C1 witness: a negative value outside the 12-bit range has been split with a
\* carry into the upper half.
C1_Witness == value = -5000 /\ lui_addi = <<1048575, 3192>>

\* C2 as stated: (0, v) inside -2048..2047, and outside it the lower half of the
\* returned pair is the signed 12-bit value: 3000 -> (1, -1096), 5000 -> (1, 904),
\* 100 -> (0, 100).
C2_SignedLowerHalf ==
    lui_addi # <<>> =>
        /\ InSigned12(value) => lui_addi = <<0, value>>
        /\ ~InSigned12(value) => lui_addi[2] = signed12(value)
        /\ value = 3000 => lui_addi = <<1, -1096>>
        /\ value = 5000 => lui_addi = <<1, 904>>
        /\ value = 100 => lui_addi = <<0, 100>>

\* C2 amended: (0, v) inside -2048..2047; outside it the lower half of the
\* returned pair is the unsigned low 12 bits of v (0..4095), whose signed12
\* reading is the signed lower half: 3000 -> (1, 3000) with signed12(3000) =
\* -1096, 5000 -> (1, 904), 100 -> (0, 100).
C2_UnsignedLowerHalf ==
    lui_addi # <<>> =>
        /\ InSigned12(value) => lui_addi = <<0, value>>
        /\ ~InSigned12(value) =>
              /\ lui_addi[2] \in 0..4095
              /\ lui_addi[2] = value % 4096
              /\ signed12(lui_addi[2]) = signed12(value)
        /\ value = 3000 => lui_addi = <<1, 3000>> /\ signed12(lui_addi[2]) = -1096
        /\ value = 5000 => lui_addi = <<1, 904>>
        /\ value = 100 => lui_addi = <<0, 100>>

\* C2 witness: 3000 has been split, and the lower half came back unsigned.
C2_Witness == value = 3000 /\ lui_addi = <<1, 3000>>

\* the zero-based index of record k among the records of its section
SectionIndex(k) ==
    Cardinality({j \in 1..(k - 1) : assembled[j].is_execution = assembled[k].is_execution})

SectionBit(k) == IF assembled[k].is_execution THEN 0 ELSE 1

Addresses(entries) == {entries[k].address : k \in 1..Len(entries)}

\* C4 as stated: no execution address of a file equals a preload address of the
\* same file, and the addresses produced for two different PE numbers, the
\* unknown-PE value 0xFFFF included, never coincide.
C4_AddressDisjointness ==
    /\ pc = "write" =>
          \A i, j \in 1..Len(mem_file) :
              (assembled[i].is_execution /\ ~assembled[j].is_execution)
                  => mem_file[i].address # mem_file[j].address
    /\ \A p1, p2 \in DOMAIN all_memory_entries :
          p1 # p2 => Addresses(all_memory_entries[p1])
                         \cap Addresses(all_memory_entries[p2]) = {}

\* C4 amended: in files whose sections hold at most 512 words each, no execution
\* address of a file equals a preload address of the same file, every address of
\* PE number p lies in the 1024-word window of p mod 256, and the addresses of
\* two PE numbers that differ modulo 256 never coincide (0xFFFF shares the
\* window of PE 255).
C4_DisjointModulo256 ==
    /\ pc = "write" =>
          \A i, j \in 1..Len(mem_file) :
              (assembled[i].is_execution /\ ~assembled[j].is_execution)
                  => mem_file[i].address # mem_file[j].address
    /\ \A p \in DOMAIN all_memory_entries :
          \A a \in Addresses(all_memory_entries[p]) :
              a \in ((p % 256) * 1024)..((p % 256) * 1024 + 1023)
    /\ \A p1, p2 \in DOMAIN all_memory_entries :
          (p1 % 256) # (p2 % 256)
              => Addresses(all_memory_entries[p1])
                     \cap Addresses(all_memory_entries[p2]) = {}

\* C4 witness: a file with a preload and an execution record is being written
\* while another PE number already has records.
C4_Witness ==
    /\ pc = "write"
    /\ next_i = 2
    /\ ~assembled[1].is_execution
    /\ assembled[2].is_execution
    /\ \E p \in DOMAIN all_memory_entries :
          p # pe_number /\ all_memory_entries[p] # <<>>

\* C5: within one file the preload records get the local indices 0, 1, 2, ...
\* in emission order and so do the execution records; the two counters are
\* independent, each starts at 0 for every file, and no two records of the same
\* file and section get the same index.
C5_ContiguousIndices ==
    pc = "write" =>
        /\ preload_count =
               Cardinality({j \in 1..next_i : ~assembled[j].is_execution})
        /\ execution_count =
               Cardinality({j \in 1..next_i : assembled[j].is_execution})
        /\ \A k \in 1..Len(mem_file) :
               mem_file[k].address % 512 = SectionIndex(k)
        /\ \A i, j \in 1..Len(mem_file) :
               (i # j /\ assembled[i].is_execution = assembled[j].is_execution)
                   => mem_file[i].address # mem_file[j].address

\* C5 witness: after a first file left records, a second file has written one
\* preload and one execution record, both with local index 0.
C5_Witness ==
    /\ pc = "write"
    /\ next_i = 2
    /\ ~assembled[1].is_execution
    /\ assembled[2].is_execution
    /\ mem_file[1].address % 512 = 0
    /\ mem_file[2].address % 512 = 0
    /\ preload_count = 1
    /\ execution_count = 1
    /\ \E p \in DOMAIN all_memory_entries :
          p # pe_number /\ all_memory_entries[p] # <<>>

\* an instruction line of the textual program: not blank, no comment, directive
\* or label
IsInstructionLine(text) == text.first = "x" /\ ~text.colon

\* the marker line of the textual program: a line that is no instruction and
\* holds the marker text (the generator writes it as a comment)
IsMarkerLine(text) == text.marker /\ ~IsInstructionLine(text)

\* what reading one more line of a file does to the section flag and the tags:
\* the flag is set by a marker line and by nothing else, never cleared, and an
\* instruction line is tagged with the flag
C6_ReadStep ==
    (pc = "read" /\ pc' = "read" /\ line_limit' = line_limit - 1) =>
        /\ in_execution_section' = (in_execution_section \/ IsMarkerLine(line'))
        /\ in_execution_section => in_execution_section'
        /\ Len(assembled') > Len(assembled) =>
              /\ ~IsMarkerLine(line')
              /\ assembled'[Len(assembled')].is_execution = in_execution_section

\* every file starts in the preload section
C6_OpenStep ==
    (pc = "manifest" /\ pc' = "read") =>
        ~in_execution_section' /\ assembled' = <<>>

\* no preload tag follows an execution tag in a file
C6_TagsOrdered ==
    \A i, j \in 1..Len(assembled) :
        (i < j /\ assembled[i].is_execution) => assembled[j].is_execution

\* C6: in a file, every instruction line read before the marker line is tagged
\* preload and every instruction line read after it is tagged execution; once
\* the marker has been seen the section never returns to preload within that
\* file, and the next file starts as preload again.
C6_SectionTagging ==
    /\ [][C6_ReadStep /\ C6_OpenStep]_vars
    /\ []C6_TagsOrdered

\* C6 witness: a first file left a record tagged execution (read after its
\* marker line), and the first instruction of the file read now is tagged preload.
C6_Witness ==
    /\ pc = "read"
    /\ Len(assembled) = 1
    /\ ~assembled[1].is_execution
    /\ ~in_execution_section
    /\ \E p \in DOMAIN all_memory_entries :
          /\ p # pe_number
          /\ \E a \in Addresses(all_memory_entries[p]) : a % 1024 < 512

\* C7 as stated: a line with an unrecognized mnemonic or too few operands
\* produces no record in the hex output, the .mem output or the combined file,
\* and consumes no local index: the counters count the encoded words only.
C7_NoRecordForUnencodedLine ==
    /\ \A k \in 1..Len(hex_file) : hex_file[k] # ""
    /\ \A k \in 1..Len(mem_file) : mem_file[k].hex # ""
    /\ \A p \in DOMAIN all_memory_entries :
          \A k \in 1..Len(all_memory_entries[p]) : all_memory_entries[p][k].hex # ""
    /\ \A b \in 1..Len(combined) :
          \A k \in 1..Len(combined[b].entries) : combined[b].entries[k].hex # ""
    /\ pc = "write" =>
          preload_count + execution_count =
              Cardinality({j \in 1..next_i : assembled[j].hex # ""})

ClusterOf(h) == h.pe_id \div h.pes_per_cluster

\* C8: without a stride, or with a zero stride, the cluster address is the plain
\* base address for every PE and duplication factor; with a non-zero stride and
\* factor 1 it is base + stride*cluster; with factor 2 it is
\* base + stride*cluster + 100000 for pe_id > 15 and base + stride*cluster
\* otherwise (base 4096, stride 256, 16 PEs per cluster, PE 20: 104352).
C8_ClusterAddress ==
    cluster_addr # <<>> =>
        /\ (~hw.has_offset \/ hw.offset = 0) => cluster_addr[1] = hw.base
        /\ (hw.has_offset /\ hw.offset # 0 /\ hw.data_dup = 1)
               => cluster_addr[1] = hw.base + hw.offset * ClusterOf(hw)
        /\ (hw.has_offset /\ hw.offset # 0 /\ hw.data_dup = 2 /\ hw.pe_id > 15)
               => cluster_addr[1] = hw.base + hw.offset * ClusterOf(hw) + 100000
        /\ (hw.has_offset /\ hw.offset # 0 /\ hw.data_dup = 2 /\ hw.pe_id <= 15)
               => cluster_addr[1] = hw.base + hw.offset * ClusterOf(hw)
        /\ (hw = [base |-> 4096, has_offset |-> TRUE, offset |-> 256, data_dup |-> 2,
                  pes_per_cluster |-> 16, pe_id |-> 20])
               => cluster_addr[1] = 104352

\* C8 witness: the address of PE 20 with duplication factor 2 has been computed.
C8_Witness ==
    /\ hw = [base |-> 4096, has_offset |-> TRUE, offset |-> 256, data_dup |-> 2,
             pes_per_cluster |-> 16, pe_id |-> 20]
    /\ cluster_addr = <<104352>>

\* C9 as stated: with a non-zero stride and duplication factor 4, every PE of
\* 0..63 receives base + stride*cluster plus the constant of its band of 16 PEs:
\* 0 for 0..15, 100000 for 16..31, 200000 for 32..47, 300000 for 48..63, the
\* last PE of each band (31, 47, 63) included.
C9_FourBands ==
    (cluster_addr # <<>> /\ hw.has_offset /\ hw.offset # 0 /\ hw.data_dup = 4
         /\ hw.pe_id <= 63)
        => cluster_addr[1] =
               hw.base + hw.offset * ClusterOf(hw) + 100000 * (hw.pe_id \div 16)

\* C10: the packed word holds four fields that do not overlap: bits 31..23 the
\* start field, bits 22..17 the span field, bits 16..12 hwl_index & 0x1F, bits
\* 11..0 iterations & 0xFFF; reading the word at those positions gives back the
\* masked values that were packed (pc_start 10, pc_stop 50, hwl_index 2,
\* iterations 8, delay 0: 10, 40, 2, 8).
C10_PackedFields ==
    hwl_imm # <<>> =>
        /\ Len(hwl_imm) = 32
        /\ Field(hwl_imm, 31, 23) = (hwl.pc_start + hwl.delay) % 512
        /\ Field(hwl_imm, 22, 17) = (hwl.pc_stop - hwl.pc_start) % 64
        /\ Field(hwl_imm, 16, 12) = hwl.hwl_index % 32
        /\ Field(hwl_imm, 11, 0) = hwl.iterations % 4096
        /\ (hwl.pc_start = 10 /\ hwl.pc_stop = 50 /\ hwl.hwl_index = 2
                /\ hwl.iterations = 8 /\ hwl.delay = 0)
               => BitsValue(hwl_imm) = 89137160

\* C10 witness: a descriptor whose fields all exceed their widths has been packed.
C10_Witness ==
    /\ hwl_imm # <<>>
    /\ hwl.pc_start = 600
    /\ hwl.pc_stop = 5
    /\ hwl.hwl_index = 33
    /\ hwl.iterations = 4104
    /\ Field(hwl_imm, 11, 0) = 8
    /\ Field(hwl_imm, 16, 12) = 1

\* C11 as stated: for every descriptor and delay d, the start field of the
\* packed word is (pc_start + d) & 0x1FF and its span field is
\* (pc_stop - (pc_start + d)) & 0x3F, the span taken from the delay-adjusted
\* start.
C11_SpanFromAdjustedStart ==
    hwl_imm # <<>> =>
        /\ Field(hwl_imm, 31, 23) = (hwl.pc_start + hwl.delay) % 512
        /\ Field(hwl_imm, 22, 17) = (hwl.pc_stop - (hwl.pc_start + hwl.delay)) % 64

\* the PE numbers main() has processed so far, in any order
ProcessedPes == {log[k].pe : k \in 1..Len(log)}

\* C12: whatever the order of the files in the manifest, the combined file holds
\* one block per processed PE number, the PE blocks in strictly ascending order
\* of PE number, then the block of the files whose PE number is unknown; within
\* a block the records are those assemble produced, in the order it produced
\* them.
C12_CombinedOrdering ==
    pc = "exit" =>
        /\ \A a, b \in 1..Len(combined) :
              (a < b /\ combined[b].heading = "PE")
                  => /\ combined[a].heading = "PE"
                     /\ combined[a].pe < combined[b].pe
        /\ \A a, b \in 1..Len(combined) :
              (combined[a].heading = "Unknown PE" /\ combined[b].heading = "Unknown PE")
                  => a = b
        /\ {combined[b].pe : b \in {c \in 1..Len(combined) : combined[c].heading = "PE"}}
               = ProcessedPes \ {UnknownPe}
        /\ (\E b \in 1..Len(combined) : combined[b].heading = "Unknown PE")
               <=> UnknownPe \in ProcessedPes
        /\ \A b \in 1..Len(combined) :
              /\ combined[b].entries = all_memory_entries[combined[b].pe]
              /\ \A i, j \in 1..Len(combined[b].entries) :
                    (i < j /\ (combined[b].entries[i].address \div 512)
                                 = (combined[b].entries[j].address \div 512))
                        => combined[b].entries[i].address < combined[b].entries[j].address

\* C12 witness: two files were processed in descending order of PE number, both
\* left records, and the combined file holds their blocks in ascending order.
C12_Witness ==
    /\ pc = "exit"
    /\ Len(log) = 2
    /\ log[1].pe > log[2].pe
    /\ Len(combined) = 2
    /\ combined[1].pe = log[2].pe
    /\ combined[2].pe = log[1].pe
    /\ combined[1].entries # <<>>
    /\ combined[2].entries # <<>>

\* C14 as stated: the addresses of consecutive lines of one file's hex/.mem
\* output are ascending.
C14_AscendingAddresses ==
    pc = "write" =>
        \A k \in 1..(Len(mem_file) - 1) :
            mem_file[k].address < mem_file[k + 1].address

\* bit 9 of an address: 1 in the preload section, 0 in the execution section
AddressSection(address) == (address \div 512) % 2

\* C14 amended: line k of the hex output is the word of record k of the .mem
\* output; the records are in source order, the preload records first; the
\* addresses ascend by one within the preload records and within the execution
\* records, and every preload address is above every execution address of the
\* file (sections of at most 512 words), so the sequence of addresses drops
\* where the execution records begin.
C14_AscendingPerSection ==
    pc = "write" =>
        /\ Len(hex_file) = Len(mem_file)
        /\ \A k \in 1..Len(mem_file) : hex_file[k] = mem_file[k].hex
        /\ \A k \in 1..(Len(mem_file) - 1) :
              LET a == mem_file[k].address
                  b == mem_file[k + 1].address
              IN  /\ AddressSection(a) = AddressSection(b) => b = a + 1
                  /\ AddressSection(a) # AddressSection(b)
                         => /\ AddressSection(a) = 1
                            /\ AddressSection(b) = 0
                            /\ b < a
        /\ \A i, j \in 1..Len(mem_file) :
              (AddressSection(mem_file[i].address) = 1
                   /\ AddressSection(mem_file[j].address) = 0)
                  => mem_file[i].address > mem_file[j].address

\* C14 witness: two preload records and two execution records have been written;
\* the address drops between the second and the third.
C14_Witness ==
    /\ pc = "write"
    /\ Len(mem_file) = 4
    /\ mem_file[2].address = mem_file[1].address + 1
    /\ mem_file[3].address < mem_file[2].address
    /\ mem_file[4].address = mem_file[3].address + 1

\* a file has failed so far: "Error processing file" was printed for it
SomeFileFailed == \E k \in 1..Len(log) : log[k].error

\* the exit code so far is 1 exactly when a file has failed; a run that ends
\* normally has read the whole manifest and written the combined file
C15_CodeMatchesFailures ==
    /\ result = (IF SomeFileFailed THEN 1 ELSE 0)
    /\ pc = "exit" =>
          /\ manifest_left = 0
          /\ combined = CombinedFile(all_memory_entries)

\* the exit code never returns from 1 to 0, and the step on which a file fails
\* leaves main() in its manifest loop
C15_FailureStep ==
    /\ result = 1 => result' = 1
    /\ (result = 0 /\ result' = 1) => (pc' = "manifest" /\ combined' = <<>>)

GenStopped == gen_pc \in {"done", "crashed"}

\* p mod pes_per_cluster <= minimum_pes_required and the assignment chosen for p
\* has between 1 and 9999 instructions
SelectedForEmission(p) ==
    LET base_pe == p % config.pes_per_cluster
    IN  /\ base_pe <= config.minimum_pes_required
        /\ ListSize(config.pe_assignments[base_pe + 1].instructions) \in 1..9999

\* C16: once generateAssembly has stopped, every PE p below total_pes whose
\* assignment exists has a program exactly when p mod pes_per_cluster is at most
\* minimum_pes_required and its assignment has between 1 and 9999 instructions.
C16_EmittedIffSelected ==
    GenStopped =>
        \A p \in 0..(config.total_pes - 1) :
            (p % config.pes_per_cluster) < Len(config.pe_assignments) =>
                (p \in DOMAIN out_files <=> SelectedForEmission(p))


\* position of a block in the order the claim gives
BlockRank(block) ==
    CASE block = "header" -> 0
      [] block = "base" -> 1
      [] block = "preload" -> 2
      [] block = "marker" -> 3
      [] block = "delay" -> 4
      [] block = "exec" -> 5
      [] block = "func" -> 6
      [] block = "footer" -> 7

RECURSIVE SectionAfter(_, _)
\* the section flag of stage 2 after it has read the first i lines of a program
SectionAfter(program, i) ==
    IF i = 0 THEN FALSE
    ELSE NextSection(SectionAfter(program, i - 1), program[i])

\* the lines of a program that stage 2 encodes and tags
EncodedLines(program) == {i \in 1..Len(program) : ~IsSkipped(program[i])}

BaseLines(program, op, reg) ==
    {i \in 1..Len(program) :
        program[i].block = "base" /\ program[i].op = op /\ program[i].reg = reg}

\* the emitted PEs whose assignment is an entry of pe_assignments
EmittedWithAssignment ==
    {p \in DOMAIN out_files : (p % config.pes_per_cluster) < Len(config.pe_assignments)}

AssignmentOf(p) == config.pe_assignments[(p % config.pes_per_cluster) + 1]

\* the program of PE p loads every base symbol with a non-zero base value: one
\* lui with the upper half exactly when the upper half is non-zero, one addi
\* with the signed lower half exactly when one of the halves is non-zero, the
\* lui before the addi
LoadsEveryBaseSymbol(p) ==
    \A reg \in DOMAIN config.mem_config :
        config.mem_config[reg] # 0 =>
            LET pair == calculateLuiAddiValues(ClusterAddressOf(config, reg, p))
                luis == BaseLines(out_files[p], "lui", reg)
                addis == BaseLines(out_files[p], "addi", reg)
            IN  /\ Cardinality(luis) = (IF pair[1] # 0 THEN 1 ELSE 0)
                /\ Cardinality(addis) = (IF pair[1] # 0 \/ pair[2] # 0 THEN 1 ELSE 0)
                /\ \A i \in luis : out_files[p][i].imm = pair[1]
                /\ \A i \in addis : out_files[p][i].imm = signed12(pair[2])
                /\ \A i \in luis : \A j \in addis : i < j

\* C18 as stated: every emitted program loads every base symbol with a non-zero
\* base value.
C18_EveryEmittedPeLoadsBases ==
    \A p \in EmittedWithAssignment : LoadsEveryBaseSymbol(p)

\* C18 amended: an emitted program whose assignment has a psrf-mem-type or
\* mem-type instruction naming a base address loads every base symbol with a
\* non-zero base value (whichever the instruction names), and no register with a
\* zero or absent base value; a program whose assignment has no such
\* instruction has no base-address block at all.
C18_BaseLoadsWhenRequired ==
    \A p \in EmittedWithAssignment :
        IF AssignmentOf(p).required_base_registers # {}
        THEN /\ LoadsEveryBaseSymbol(p)
             /\ \A i \in 1..Len(out_files[p]) :
                   (out_files[p][i].block = "base" /\ out_files[p][i].op \in {"lui", "addi"})
                       => /\ out_files[p][i].reg \in DOMAIN config.mem_config
                          /\ config.mem_config[out_files[p][i].reg] # 0
        ELSE \A i \in 1..Len(out_files[p]) : out_files[p][i].block # "base"

\* C18 witness: one emitted program loads a symbol with an addi alone and
\* another symbol with a lui and a negative addi, and another emitted program,
\* under the same non-empty memory configuration, has no base-address block.
C18_Witness ==
    \E p, q \in EmittedWithAssignment :
        /\ AssignmentOf(p).required_base_registers # {}
        /\ \E reg \in DOMAIN config.mem_config :
              /\ BaseLines(out_files[p], "lui", reg) = {}
              /\ BaseLines(out_files[p], "addi", reg) # {}
        /\ \E reg \in DOMAIN config.mem_config :
              /\ BaseLines(out_files[p], "lui", reg) # {}
              /\ \E i \in BaseLines(out_files[p], "addi", reg) : out_files[p][i].imm < 0
        /\ AssignmentOf(q).required_base_registers = {}
        /\ \E reg \in DOMAIN config.mem_config : config.mem_config[reg] # 0
        /\ \A i \in 1..Len(out_files[q]) : out_files[q][i].block # "base"


\* the psrf-mem-type instructions of an assignment, by position
PsrfInstructions(assignment) ==
    {i \in 1..Len(assignment.instructions) :
        assignment.instructions[i].format = "psrf-mem-type"}

\* the selector of an instruction, 0 when it has none
SelectorOf(instr) == IF instr.has_var THEN instr.var ELSE 0

\* the non-zero scratch entries of an assignment: <<instruction, k>> pairs
NonZeroScratch(assignment) ==
    {pair \in PsrfInstructions(assignment) \X (0..5) :
        LET instr == assignment.instructions[pair[1]]
        IN  \E key \in DOMAIN instr.psrf_var :
                KeyNumber(key) = pair[2] /\ instr.psrf_var[key] # 0}

\* the value of scratch entry k of the instruction at position i
ScratchValue(assignment, i, k) ==
    LET instr == assignment.instructions[i]
    IN  instr.psrf_var[CHOOSE key \in DOMAIN instr.psrf_var : KeyNumber(key) = k]

\* the lines of a program with operation op
LinesWith(program, op) == {i \in 1..Len(program) : program[i].op = op}

\* C19: an emitted program has a preload block only if its assignment has a
\* psrf-mem-type instruction; its ppsrf.addi lines are, one for one and in
\* order, the non-zero scratch entries v_k of those instructions, each with
\* destination v(6*s + k), source v(6*s) and the value, s being the selector of
\* the instruction (0 when absent); a zero entry has no line.
C19_ScratchLoads ==
    \A p \in EmittedWithAssignment :
        LET program == out_files[p]
            assignment == AssignmentOf(p)
            loads == LinesWith(program, "ppsrf.addi")
            entries == NonZeroScratch(assignment)
        IN  /\ PsrfInstructions(assignment) = {}
                  => \A i \in 1..Len(program) : program[i].block # "preload"
            /\ Cardinality(loads) = Cardinality(entries)
            /\ \A i \in loads : program[i].block = "preload"
            /\ \A e \in entries :
                  LET before == {f \in entries :
                                    f[1] < e[1] \/ (f[1] = e[1] /\ f[2] < e[2])}
                      s == SelectorOf(assignment.instructions[e[1]])
                  IN  \E i \in loads :
                          /\ Cardinality({j \in loads : j < i}) = Cardinality(before)
                          /\ program[i].rd = 6 * s + e[2]
                          /\ program[i].rs = 6 * s
                          /\ program[i].imm = ScratchValue(assignment, e[1], e[2])

\* C19 witness: an emitted program loads v8 from v6 with 7 (selector 1, entry
\* v2) and has no load of v6 (entry v0 is zero); another emitted program, whose
\* assignment has no psrf-mem-type instruction, has no preload block.
C19_Witness ==
    \E p, q \in EmittedWithAssignment :
        /\ \E i \in LinesWith(out_files[p], "ppsrf.addi") :
              /\ out_files[p][i].rd = 8
              /\ out_files[p][i].rs = 6
              /\ out_files[p][i].imm = 7
        /\ \A i \in LinesWith(out_files[p], "ppsrf.addi") : out_files[p][i].rd # 6
        /\ \E i \in PsrfInstructions(AssignmentOf(p)) :
              /\ "v0" \in DOMAIN AssignmentOf(p).instructions[i].psrf_var
              /\ AssignmentOf(p).instructions[i].psrf_var["v0"] = 0
        /\ PsrfInstructions(AssignmentOf(q)) = {}
        /\ \A i \in 1..Len(out_files[q]) : out_files[q][i].block # "preload"


\* the non-zero coefficient entries of an assignment: <<instruction, k>> pairs
NonZeroCoefficients(assignment) ==
    {pair \in PsrfInstructions(assignment) \X (0..5) :
        LET instr == assignment.instructions[pair[1]]
        IN  \E key \in DOMAIN instr.coefficients :
                KeyNumber(key) = pair[2] /\ instr.coefficients[key] # 0}

\* the value of coefficient k of the instruction at position i
CoefficientValue(assignment, i, k) ==
    LET instr == assignment.instructions[i]
    IN  instr.coefficients[CHOOSE key \in DOMAIN instr.coefficients : KeyNumber(key) = k]

Magnitude(n) == IF n < 0 THEN -n ELSE n

\* the coefficient lines of a program that target register c<reg_num>
CoefficientLines(program, op, reg_num) ==
    {i \in LinesWith(program, op) : program[i].rd = reg_num}

\* C20 as stated: a non-zero coefficient whose magnitude exceeds 4095, positive
\* or negative, is loaded by a corf.lui followed by a corf.addi, and any other
\* non-zero coefficient by a single corf.addi.
C20_TwoLineFormByMagnitude ==
    \A p \in EmittedWithAssignment :
        LET program == out_files[p]
            assignment == AssignmentOf(p)
        IN  \A e \in NonZeroCoefficients(assignment) :
                LET reg_num == 6 * SelectorOf(assignment.instructions[e[1]]) + e[2]
                    luis == CoefficientLines(program, "corf.lui", reg_num)
                    addis == CoefficientLines(program, "corf.addi", reg_num)
                IN  /\ Cardinality(addis) = 1
                    /\ IF Magnitude(CoefficientValue(assignment, e[1], e[2])) > 4095
                       THEN /\ Cardinality(luis) = 1
                            /\ \A i \in luis : \A j \in addis : i < j
                       ELSE luis = {}


\* C13 as stated, for stage 1: when the program has been run twice on the same
\* configuration file, the files the second run leaves are identical to the
\* files the first run left.
C13_SecondRunSameFiles ==
    (run = 2 /\ GenStopped) => out_files = first_files


\* ---- C24 ----
PackedWidths == {5, 12, 13, 20, 21}

\* the numbers std::stoi read from the arguments of a line
ImmediatesOf(instr) ==
    {instr.args[k].num : k \in {j \in 1..Len(instr.args) : StoiOk(instr.args[j])}}

\* C24: for every line parse_instruction has encoded, to_binary(n, w) of each
\* immediate n of the line is the w-bit binary of n mod 2^w, for the widths
\* 5, 12, 13, 20 and 21, negative and too large numbers included, and the word
\* is exactly 32 bits long.
C24_ToBinaryIsModular ==
    enc_result.status = "word" =>
        /\ Len(enc_result.binary) = 32
        /\ \A n \in ImmediatesOf(enc_line) : \A w \in PackedWidths :
              /\ Len(to_binary(n, w)) = w
              /\ BitsValue(to_binary(n, w)) = n % Pow2(w)

\* a negative and a too large immediate have been packed
C24_Witness ==
    /\ enc_calls = 2
    /\ enc_result.status = "word"
    /\ enc_line.op = "addi"
    /\ ImmediatesOf(enc_line) = {MinInt32}
    /\ Field(enc_result.binary, 31, 20) = 0


\* ---- C25 ----
\* bits hi..lo of a two's complement immediate
ImmBits(n, hi, lo) == (n \div Pow2(lo)) % Pow2(hi - lo + 1)

\* C25: the word of every encoded jal line has imm[20] in bit 31, imm[10:1] in
\* bits 30..21, imm[11] in bit 20 and imm[19:12] in bits 19..12, then the 5 bits
\* of rd and the 7 bits of the opcode.
C25_JalCanonicalLayout ==
    (enc_result.status = "word" /\ enc_line.op = "jal") =>
        LET imm == enc_line.args[2].num
            word == enc_result.binary
        IN  /\ Field(word, 31, 31) = ImmBits(imm, 20, 20)
            /\ Field(word, 30, 21) = ImmBits(imm, 10, 1)
            /\ Field(word, 20, 20) = ImmBits(imm, 11, 11)
            /\ Field(word, 19, 12) = ImmBits(imm, 19, 12)
            /\ Field(word, 11, 7) = enc_line.args[1].name[2]
            /\ Field(word, 6, 0) = instructions["jal"]


\* ---- C23 ----
\* the positions of the register operands of a line that name no register of
\* the map its opcode indexes
ForeignOperands(instr) ==
    {k \in 1..Len(instr.args) :
        /\ instr.args[k].kind = "name"
        /\ instr.args[k].name \notin DOMAIN FreshTables[TableOf(instr.op)]}

\* the line with operand k replaced by the register `name`
WithOperand(instr, k, name) ==
    [instr EXCEPT !.args[k] = NameTok(name[1], name[2])]

\* C23: when a line is encoded, an operand that names no register of the
\* opcode's own table (x0-x31, c0-c31, v0-v31 or L1-L7) is not resolved to a
\* register of that table: the word differs from the word of the same line
\* with any register of the table in that place.
C23_ForeignNameNeverResolves ==
    enc_result.status = "word" =>
        \A k \in ForeignOperands(enc_line) :
            \A name \in DOMAIN FreshTables[TableOf(enc_line.op)] :
                parse_instruction(WithOperand(enc_line, k, name), FreshTables).binary
                    # enc_result.binary


\* ---- C30 ----
\* C30: whatever lines the assembler object has encoded before, unknown
\* register names that became keys of its maps included, parse_instruction
\* gives a line the result a newly constructed assembler gives it.
C30_WordDependsOnLineOnly ==
    enc_calls > 0 =>
        /\ enc_result.status = parse_instruction(enc_line, FreshTables).status
        /\ enc_result.binary = parse_instruction(enc_line, FreshTables).binary

\* a line naming an unknown register was encoded by an assembler whose general
\* map had already received another unknown name from the line before
C30_Witness ==
    /\ enc_calls = 2
    /\ enc_result.status = "word"
    /\ enc_line.op = "add"
    /\ ForeignOperands(enc_line) # {}
    /\ \A k \in ForeignOperands(enc_line) :
          enc_line.args[k].name \in DOMAIN tables[TableOf(enc_line.op)]
    /\ Cardinality(DOMAIN tables.registers) > 33


\* ---- C22 ----
\* ((U mod 2^20) << 12) + signed12(L) modulo 2^32 as a 32-bit word, for the 20
\* and 12 bits U and L that stage 2 has put into the two words
ReconstructedWord(u20, l12) ==
    IF l12 < 2048 THEN Bits(u20, 20) \o Bits(l12, 12)
    ELSE Bits((u20 + Pow2(20) - 1) % Pow2(20), 20) \o Bits(l12, 12)

\* the words of the lines with mnemonic op that stage 2 has encoded
WordsOf(op) ==
    {pipe_words[i].binary :
        i \in {j \in DOMAIN pipe_words :
                  pipe_words[j].text.op = op /\ pipe_words[j].status = "word"}}

\* the instruction of the one-instruction configuration
PipeInstruction == config.pe_assignments[1].instructions[1]

\* C22: for every hwl-type instruction, the 20 bits stage 2 encodes for the
\* hwlrf.lui line and the 12 bits it encodes for the hwlrf.addi line that stage
\* 1 wrote give back the packed control word of the descriptor and the delay
\* of the PE: ((U mod 2^20) << 12) + signed12(L) = packed word modulo 2^32.
C22_HwlWordReconstructed ==
    \A lui_word \in WordsOf("hwlrf.lui") : \A addi_word \in WordsOf("hwlrf.addi") :
        ReconstructedWord(Field(lui_word, 31, 12), Field(addi_word, 31, 20))
            = calculateHWLImmediate(PipeInstruction.hwl, DelayOf(config, 0))

\* both lines of a control word whose lower half has bit 11 set and whose
\* upper half is all ones have been encoded: U = 2^20 was written, 0 encoded
C22_Witness ==
    /\ WordsOf("hwlrf.lui") # {}
    /\ WordsOf("hwlrf.addi") # {}
    /\ \E l \in 1..Len(out_files[0]) :
          out_files[0][l].op = "hwlrf.lui" /\ out_files[0][l].imm = 1048576
    /\ \A w \in WordsOf("hwlrf.lui") : Field(w, 31, 12) = 0
    /\ \A w \in WordsOf("hwlrf.addi") : Field(w, 31, 20) = 4095


\* ---- C26 ----
\* every register operand of the line is the name of a register
WellFormedOperands(text) ==
    \A k \in 1..Len(text.args) :
        /\ text.args[k].kind \in {"name", "memname"} =>
              text.args[k].name[1] \in {"x", "c", "v", "L"}
        /\ text.args[k].kind \in {"mem", "memblank", "memname"} =>
              text.args[k].base[1] \in {"x", "c", "v", "L"}

\* C26: every instruction line of a file stage 1 has written (a line that is
\* not empty, a comment, a directive or a label) whose operands are well
\* formed is encoded by stage 2 to a word of 32 bits; stage 1 writes a comment
\* for an operation it does not recognize, so each such line carries a
\* mnemonic of the opcode table.
C26_EmittedLinesAreEncoded ==
    \A i \in DOMAIN pipe_words :
        WellFormedOperands(pipe_words[i].text) =>
            /\ pipe_words[i].text.op \in DOMAIN instructions \cup {"nop"}
            /\ pipe_words[i].status = "word"
            /\ Len(pipe_words[i].binary) = 32


\* ---- C29 ----
\* C29: every register named in a preload line that stage 1 has written
\* (ppsrf.addi, corf.addi, corf.lui) is one of v0..v31 or c0..c31, and the rd
\* field of the word stage 2 encodes for the line is the number of the
\* register the line names.
C29_PreloadRegistersInRange ==
    \A i \in DOMAIN pipe_words :
        pipe_words[i].text.op \in {"ppsrf.addi", "corf.addi", "corf.lui"} =>
            /\ ForeignOperands(pipe_words[i].text) = {}
            /\ pipe_words[i].status = "word"
            /\ Field(pipe_words[i].binary, 11, 7) = pipe_words[i].text.args[1].name[2]


\* ---- C21 ----
\* the instruction as the configuration file spells it
SpelledInstruction == yaml.pe_assignments[1].instructions[1]

\* the instruction lines of the execution block of the file of PE 0
ExecutionLines ==
    SelectSeq(out_files[0], LAMBDA l : l.block = "exec" /\ ~IsSkipped(l))

\* C21: whichever way the configuration spells the operation (ADDI, addi) and
\* the format of an ADDI, an immediate outside -2048..2047 is written as
\* `lui rd, U` followed by `addi rd, ra1, L`, where <<U, L>> are the halves
\* calculateLuiAddiValues returns for it, L read as a signed 12-bit number.
C21_LargeAddiIsSplit ==
    (/\ 0 \in DOMAIN out_files
     /\ LowerCase(SpelledInstruction.operation) = "addi"
     /\ (SpelledInstruction.imm > 2047 \/ SpelledInstruction.imm < -2048)) =>
        LET instr == SpelledInstruction
            pair == calculateLuiAddiValues(instr.imm)
        IN  /\ Len(ExecutionLines) = 2
            /\ ExecutionLines[1].op = "lui"
            /\ ExecutionLines[1].args = <<RegTok(instr.rd), NumTok(pair[1])>>
            /\ ExecutionLines[2].op = "addi"
            /\ ExecutionLines[2].args =
                   <<RegTok(instr.rd), RegTok(instr.ra1), NumTok(signed12(pair[2]))>>


\* ---- C27 ----
\* C27: whenever the loop of generateAssembly is at a PE that passes the test
\* base_pe > minimum_pes_required, the index base_pe it is about to use is
\* smaller than pe_assignments.size().
C27_AssignmentIndexInRange ==
    (/\ gen_pc = "loop"
     /\ gen_pe < config.total_pes
     /\ ~BeyondMinimum(BasePe, config.minimum_pes_required)) =>
        BasePe < Len(config.pe_assignments)


\* ---- C28 ----
\* the records stored for the combined file are kept by a step
RecordsKept ==
    \A p \in DOMAIN all_memory_entries :
        /\ p \in DOMAIN all_memory_entries'
        /\ Len(all_memory_entries'[p]) >= Len(all_memory_entries[p])
        /\ \A i \in 1..Len(all_memory_entries[p]) :
              all_memory_entries'[p][i] = all_memory_entries[p][i]

\* C28: a record written to a per-file .mem output is stored for the combined
\* file at the same time; no later step of the run removes a stored record,
\* whatever PE numbers the later files have, and when main() ends the combined
\* file holds the stored records of every PE number, the unknown one included.
C28_CombinedHoldsEveryRecord ==
    [][/\ RecordsKept
       /\ pc' = "exit" =>
             \A p \in DOMAIN all_memory_entries' :
                 \E b \in 1..Len(combined') :
                     /\ combined'[b].pe = p
                     /\ combined'[b].entries = all_memory_entries'[p]]_vars

====
